---- MODULE Spec2Model ----
(***************************************************************************)
(* OpenEcho: the agent orchestration loop (src/src/agent.ts) and the TUI   *)
(* front end that drives it (src/src/tui.tsx).                             *)
(*                                                                         *)
(* An OpenEchoAgent owns one conversation per provider protocol            *)
(* (conversationHistory for the Claude protocol, openaiHistory for the     *)
(* OpenAI protocol).  chat / chatStream run a bounded loop of model        *)
(* inference rounds; a round that requests tool calls executes them one by *)
(* one through executeTool and feeds the results back.                     *)
(*                                                                         *)
(* The model provider and the platform behind the tool handlers are the    *)
(* environment: the response of a round and the outcome of a handler are   *)
(* chosen nondeterministically from small explicit sets.                   *)
(***************************************************************************)
EXTENDS Integers, Sequences, FiniteSets, TLC

\* config.maxTurns given to the constructor ranges over 1..MaxTurnsBound
\* (and over "omitted", which selects DefaultMaxTurns).
MaxTurnsBound == 2

\* agent.ts:125  maxTurns: config.maxTurns || 10
DefaultMaxTurns == 10

Agents == {1, 2}
Calls == {1, 2}

Null == "<null>"
NoId == <<>>

-----------------------------------------------------------------------------
(* JSON objects and JSON texts that tool calls carry.                      *)

EmptyObj == [k \in {} |-> ""]
QueryObj == [query |-> "hi"]
TextObj == [text |-> "hi"]

\* JSON.stringify of an input object, as the OpenAI provider streams it: in
\* two argument fragments that the loop concatenates by tool-call index.
ArgFragments(input) ==
  CASE input = EmptyObj -> <<"{", "}">>
    [] input = QueryObj -> <<"{\"query\":", "\"hi\"}">>
    [] input = TextObj -> <<"{\"text\":", "\"hi\"}">>

\* A truncated argument text (the stream ended inside the object).
MalformedFragments == <<"{\"query\":", "">>

\* JSON.parse on the argument texts that occur: ok = FALSE when it throws.
JSONparse(text) ==
  CASE text = "{}" -> [ok |-> TRUE, value |-> EmptyObj]
    [] text = "{\"query\":\"hi\"}" -> [ok |-> TRUE, value |-> QueryObj]
    [] text = "{\"text\":\"hi\"}" -> [ok |-> TRUE, value |-> TextObj]
    [] OTHER -> [ok |-> FALSE, value |-> EmptyObj]

-----------------------------------------------------------------------------
(* Capability registry and executeTool.                                    *)

\* The registered tools the model needs; "echo" is a name the model may ask
\* for that is not registered.
tools == {"moltbook_get_feed", "moltbook_search"}

getTool(name) == IF name \in tools THEN name ELSE Null

\* tool.parameters.parse(input): zod object schemas strip unknown keys and
\* fill defaults; ok = FALSE when parse throws.
SchemaParse(name, input) ==
  CASE name = "moltbook_search" ->
         IF "query" \in DOMAIN input
           THEN [ok |-> TRUE,
                 value |-> [query |-> input.query, type |-> "all", limit |-> 20]]
           ELSE [ok |-> FALSE, value |-> EmptyObj]
    [] name = "moltbook_get_feed" ->
         [ok |-> TRUE,
          value |-> [sort |-> IF "sort" \in DOMAIN input THEN input.sort ELSE "hot",
                     limit |-> IF "limit" \in DOMAIN input THEN input.limit ELSE 25]]

\* What a handler can do once it runs: the platform answers 2xx, a client
\* error, a rate limit, a server error (after the transport's retries), no
\* credential resolves, or the handler throws.
HandlerOutcomes(name) ==
  IF name = "moltbook_search"
    THEN {"ok", "http400", "http404", "http429", "http500", "http503",
          "nocredential", "throws"}
    ELSE {"ok", "ok_nolist", "http500", "throws"}

\* A tool result: success is "true", "false" or "absent" (no success field);
\* list = FALSE: its posts property is not an array.
Result(success, error, status, fallback) ==
  [success |-> success, error |-> error, status |-> status, fallback |-> fallback,
   list |-> TRUE]

NoResult == Result("absent", "", 0, FALSE)

\* The handler's return value for an outcome other than "throws".
HandlerResult(name, outcome) ==
  CASE outcome = "ok" -> Result("true", "", 0, FALSE)
    [] outcome = "ok_nolist" -> [Result("true", "", 0, FALSE) EXCEPT !.list = FALSE]
    [] outcome = "http400" -> Result("false", "Search failed", 400, FALSE)
    [] outcome = "http404" -> Result("false", "not found", 404, FALSE)
    [] outcome = "http429" -> Result("false", "slow down", 429, FALSE)
    [] outcome = "nocredential" ->
         Result("false", "no identity or API key available", 401, FALSE)
    [] outcome = "http500" -> Result("false", "server error: HTTP 500", 500, FALSE)
    [] outcome = "http503" -> Result("false", "server error: HTTP 503", 503, FALSE)

isToolFailure(result) == result.success = "false"

\* err.toLowerCase().includes("search failed") on the error texts that occur.
IncludesSearchFailed(err) ==
  err \in {"Search failed", "search failed",
           "search failed (fallback feed unavailable)"}

isSearchFailure(result) ==
  /\ isToolFailure(result)
  /\ \/ IncludesSearchFailed(result.error)
     \/ result.status = 500

\* Mutant: the fallback does not test that posts is an array.
FallbackResultAnyPosts(feed) ==
  IF feed.success # "true"
    THEN Result("false", "search failed (fallback feed unavailable)", 0, FALSE)
    ELSE Result("true", "", 0, TRUE)

\* fallbackSearch once its feed fetch has returned `feed`.
FallbackResult(feed) ==
  IF feed.success # "true" \/ ~feed.list
    THEN Result("false", "search failed (fallback feed unavailable)", 0, FALSE)
    ELSE Result("true", "", 0, TRUE)

\* executeTool(name, input).  `outs` is the sequence of outcomes of the
\* handlers it runs, in order.  Returns the result, the handler runs made
\* (tool name and validated input), and whether an exception escaped.
\* tryExecuteTool is the body of its try block (threw = TRUE: it throws).
RECURSIVE executeTool(_, _, _)
RECURSIVE tryExecuteTool(_, _, _)

tryExecuteTool(name, input, outs) ==
  LET parsed == SchemaParse(name, input)
      run == [name |-> name, input |-> parsed.value]
  IN  IF ~parsed.ok
        THEN [result |-> NoResult, runs |-> <<>>, threw |-> TRUE]
      ELSE IF Head(outs) = "throws"
        THEN [result |-> NoResult, runs |-> <<run>>, threw |-> TRUE]
      ELSE
        LET result == HandlerResult(name, Head(outs))
        IN  IF name = "moltbook_search" /\ isSearchFailure(result)
              THEN LET feed == executeTool("moltbook_get_feed",
                                           [sort |-> "new", limit |-> 100],
                                           Tail(outs))
                   IN  [result |-> FallbackResult(feed.result),
                        runs |-> <<run>> \o feed.runs, threw |-> feed.threw]
              ELSE [result |-> result, runs |-> <<run>>, threw |-> FALSE]

\* Mutant: the try/catch around validation and handler is missing.
executeToolNoCatch(name, input, outs) ==
  IF getTool(name) = Null
    THEN [result |-> Result("absent", "unknown tool", 0, FALSE),
          runs |-> <<>>, threw |-> FALSE]
    ELSE tryExecuteTool(name, input, outs)

executeTool(name, input, outs) ==
  IF getTool(name) = Null
    THEN [result |-> Result("absent", "unknown tool", 0, FALSE),
          runs |-> <<>>, threw |-> FALSE]
    ELSE LET r == tryExecuteTool(name, input, outs)
         IN  IF r.threw
               THEN [result |-> Result("absent", "tool failed", 0, FALSE),
                     runs |-> r.runs, threw |-> FALSE]
               ELSE r

\* The outcome sequences that matter for one executeTool(name, input).
OutcomeSeqs(name, input) ==
  IF getTool(name) = Null \/ ~SchemaParse(name, input).ok
    THEN {<<>>}
    ELSE LET falls == IF name = "moltbook_search"
                        THEN {o \in HandlerOutcomes(name) \ {"throws"} :
                                isSearchFailure(HandlerResult(name, o))}
                        ELSE {}
         IN  {<<o>> : o \in HandlerOutcomes(name) \ falls}
             \cup {<<o, f>> : o \in falls,
                              f \in HandlerOutcomes("moltbook_get_feed")}

-----------------------------------------------------------------------------
(* The model provider: what one inference round returns, and how each      *)
(* protocol puts it on the wire.                                           *)

\* One requested invocation; malformed = TRUE: the OpenAI provider streams an
\* argument text that is not valid JSON.
Invocation(name, input, malformed) ==
  [name |-> name, input |-> input, malformed |-> malformed]

\* One round: the text fragments, the requested invocations, the stop reason,
\* and whether the request fails ("request": before anything arrives,
\* "stream": after the text fragments) with which error message.
Response(texts, invocations, stop, fail, error) ==
  [texts |-> texts, calls |-> invocations, stop |-> stop, fail |-> fail,
   error |-> error]

StopReasons == {"tool_use", "end_turn"}

Answers ==
  {Response(t, <<>>, "end_turn", "none", "") : t \in {<<"done">>, <<"", "hi">>}}

ToolRequests ==
  { <<<<>>, <<Invocation("echo", TextObj, FALSE)>>>>,
    <<<<"hi">>, <<Invocation("moltbook_search", QueryObj, FALSE)>>>>,
    <<<<>>, <<Invocation("moltbook_search", EmptyObj, FALSE),
              Invocation("moltbook_get_feed", EmptyObj, FALSE)>>>> }

ToolRounds ==
  {Response(tr[1], tr[2], s, "none", "") : tr \in ToolRequests, s \in StopReasons}

MalformedRounds ==
  {Response(<<>>, <<Invocation("moltbook_get_feed", EmptyObj, TRUE),
                    Invocation("echo", TextObj, FALSE)>>, s, "none", "")
     : s \in StopReasons}

FailedRounds ==
  {Response(<<>>, <<>>, "", "request", "401 invalid api_key"),
   Response(<<"hi">>, <<>>, "", "stream", "connection reset")}

\* The stub of a model that asks for one invocation in every round.
StubRounds == {Response(<<>>, <<Invocation("echo", TextObj, FALSE)>>,
                        "tool_use", "none", "")}

\* The two-round scenario stub answers like this model: the small set used
\* when two calls run at once.
SmallRounds ==
  StubRounds \cup {Response(<<"done">>, <<>>, "end_turn", "none", "")}

\* Ids the provider gives the invocations of round `turn` of call c.
ToolId(c, turn, j) == <<c, turn, j>>

\* --- Claude protocol (Anthropic SDK message stream) ---

StreamEvent(type, delta, text) == [type |-> type, delta |-> delta, text |-> text]

\* The events of messages.stream() in arrival order; when the round fails
\* the iteration throws after the last event listed.
ClaudeStream(resp) ==
  IF resp.fail = "request" THEN <<>>
  ELSE <<StreamEvent("message_start", "", "")>>
       \o [n \in 1..Len(resp.texts) |->
             StreamEvent("content_block_delta", "text_delta", resp.texts[n])]
       \o (IF resp.fail # "none" THEN <<>>
           ELSE [n \in 1..Len(resp.calls) |->
                   StreamEvent("content_block_delta", "input_json_delta", "")]
                \o <<StreamEvent("message_stop", "", "")>>)

\* finalMessage.content filtered to its tool_use blocks.
ClaudeToolUseBlocks(resp, c, turn) ==
  [j \in 1..Len(resp.calls) |->
     [id |-> ToolId(c, turn, j), name |-> resp.calls[j].name,
      input |-> resp.calls[j].input]]

\* --- OpenAI protocol (chat.completions stream of delta chunks) ---

Chunk(content, tool_calls) == [content |-> content, tool_calls |-> tool_calls]

ToolCallDelta(index, id, name, arguments) ==
  [index |-> index, id |-> id, name |-> name, arguments |-> arguments]

ArgumentTexts(inv) ==
  IF inv.malformed THEN MalformedFragments ELSE ArgFragments(inv.input)

\* Invocation j comes in two chunks: the first carries id, name and the
\* first argument fragment, the second only the rest of the arguments.
CallChunks(resp, c, turn, j) ==
  <<Chunk(Null, <<ToolCallDelta(j - 1, ToolId(c, turn, j), resp.calls[j].name,
                                ArgumentTexts(resp.calls[j])[1])>>),
    Chunk(Null, <<ToolCallDelta(j - 1, NoId, "",
                                ArgumentTexts(resp.calls[j])[2])>>)>>

RECURSIVE AllCallChunks(_, _, _, _)
AllCallChunks(resp, c, turn, j) ==
  IF j > Len(resp.calls) THEN <<>>
  ELSE CallChunks(resp, c, turn, j) \o AllCallChunks(resp, c, turn, j + 1)

OpenAIChunks(resp, c, turn) ==
  IF resp.fail = "request" THEN <<>>
  ELSE [n \in 1..Len(resp.texts) |-> Chunk(resp.texts[n], <<>>)]
       \o (IF resp.fail # "none" THEN <<>>
           ELSE AllCallChunks(resp, c, turn, 1) \o <<Chunk(Null, <<>>)>>)

\* JavaScript truthiness of a string-or-null value.
Truthy(v) == v # Null /\ v # ""

\* pendingToolCalls: a Map keyed by index, in insertion order; here the
\* sequence of its entries.
PendingPos(pending, index) ==
  IF \E n \in 1..Len(pending) : pending[n].index = index
    THEN CHOOSE n \in 1..Len(pending) : pending[n].index = index
    ELSE 0

\* Mutant: a new index is put in front of the entries collected so far.
AccumulateOneInFront(pending, tc) ==
  LET p0 == IF PendingPos(pending, tc.index) = 0
              THEN <<[index |-> tc.index, id |-> tc.id,
                      name |-> tc.name, arguments |-> ""]>> \o pending
              ELSE pending
      n == PendingPos(p0, tc.index)
  IN  [p0 EXCEPT ![n] =
         [index |-> @.index,
          id |-> IF tc.id # NoId THEN tc.id ELSE @.id,
          name |-> IF tc.name # "" THEN tc.name ELSE @.name,
          arguments |-> IF tc.arguments # "" THEN @.arguments \o tc.arguments
                        ELSE @.arguments]]

\* The body of `for (const tc of delta.tool_calls)` for one tc.
AccumulateOne(pending, tc) ==
  LET p0 == IF PendingPos(pending, tc.index) = 0
              THEN Append(pending, [index |-> tc.index, id |-> tc.id,
                                    name |-> tc.name, arguments |-> ""])
              ELSE pending
      n == PendingPos(p0, tc.index)
  IN  [p0 EXCEPT ![n] =
         [index |-> @.index,
          id |-> IF tc.id # NoId THEN tc.id ELSE @.id,
          name |-> IF tc.name # "" THEN tc.name ELSE @.name,
          arguments |-> IF tc.arguments # "" THEN @.arguments \o tc.arguments
                        ELSE @.arguments]]

RECURSIVE AccumulateToolCalls(_, _)
AccumulateToolCalls(pending, deltas) ==
  IF deltas = <<>> THEN pending
  ELSE AccumulateToolCalls(AccumulateOne(pending, Head(deltas)), Tail(deltas))

\* pendingToolCalls after the tool_calls of chunks[from..to] are processed.
RECURSIVE AccumulateChunks(_, _, _, _)
AccumulateChunks(pending, chunks, from, to) ==
  IF from > to THEN pending
  ELSE AccumulateChunks(AccumulateToolCalls(pending, chunks[from].tool_calls),
                        chunks, from + 1, to)

\* The message of a non-streamed completion (chat): the tool calls whole.
OpenAIMessageToolCalls(resp, c, turn) ==
  [j \in 1..Len(resp.calls) |->
     [index |-> j - 1, id |-> ToolId(c, turn, j), name |-> resp.calls[j].name,
      arguments |-> ArgumentTexts(resp.calls[j])[1]
                    \o ArgumentTexts(resp.calls[j])[2]]]

RECURSIVE JoinTexts(_)
JoinTexts(texts) ==
  IF texts = <<>> THEN "" ELSE Head(texts) \o JoinTexts(Tail(texts))

\* chatWithClaude: textBlocks.map((b) => b.text).join("\n").
RECURSIVE TextResponse(_)
TextResponse(texts) ==
  IF texts = <<>> THEN ""
  ELSE IF Len(texts) = 1 THEN Head(texts)
  ELSE Head(texts) \o "\n" \o TextResponse(Tail(texts))

-----------------------------------------------------------------------------
(* State.                                                                  *)

VARIABLES
  driver,               \* who calls the agents: "single", "pair" or "tui"
  stub,                 \* the model behind the provider: "free" or "stub"
  config,               \* config[a]: the agent's InternalConfig
  anthropicClient,      \* anthropicClient[a]: TRUE when the client exists
  openaiClient,         \* openaiClient[a]
  conversationHistory,  \* conversationHistory[a]: Claude-protocol history
  openaiHistory,        \* openaiHistory[a]: OpenAI-protocol history
  frame,                \* frame[c]: locals and position of call c
  events,               \* events[c]: the StreamEvents call c has yielded
  response,             \* response[c]: the AgentResponse chat() returned
  requests,             \* requests[c]: inference requests call c has issued
  handlerRuns,          \* handlerRuns[c]: tool handlers call c has run
  rounds,               \* rounds[c]: the model's rounds and the handler
                        \* outcomes call c has met
  isBusyRef,            \* TuiApp isBusyRef.current
  tuiRunning,           \* calls whose runChat loop has not returned
  builtinPending        \* a runBuiltin command has not returned

agentVars == <<config, anthropicClient, openaiClient, conversationHistory,
               openaiHistory>>
callVars == <<frame, events, response, requests, handlerRuns, rounds>>
tuiVars == <<isBusyRef, tuiRunning, builtinPending>>

VARIABLES
  identityConfig,       \* identityManager.config: default and identities
  saveLog,              \* outcomes of the saveConfig() calls made so far
  apiCall,              \* locals and position of the apiRequest call
  fetches,              \* HTTP requests the apiRequest call has issued
  sleeps                \* the sleep(ms) waits the apiRequest call has made

VARIABLES
  heartbeatState,       \* heartbeatManager.state
  heartbeatStateFile,   \* the document at HEARTBEAT_STATE_FILE
  clock,                \* Date.now()
  heartbeatCall,        \* the latest call on the tracker and what it returned
  heartbeatRun,         \* position of the runHeartbeat() call
  lastPostAt,           \* time of the latest post recorded (JsNull: none)
  lastCommentAt,        \* time of the latest comment recorded
  steps,                \* clock ticks and state-changing calls so far
  peerTracker           \* the HeartbeatManager of a second process on the
                        \* same HEARTBEAT_STATE_FILE

VARIABLES
  toolCall,             \* toolCall[t]: locals and position of tool call t
  feedPosts             \* the posts the platform's feed holds

identityVars == <<identityConfig, saveLog>>
apiVars == <<apiCall, fetches, sleeps>>
heartbeatVars == <<heartbeatState, heartbeatStateFile, clock, heartbeatCall,
                   heartbeatRun, lastPostAt, lastCommentAt, steps, peerTracker>>
toolVars == <<toolCall, feedPosts>>
platformVars == <<identityVars, apiVars, heartbeatVars, toolVars>>
loopVars == <<driver, stub, agentVars, callVars, tuiVars>>
vars == <<loopVars, platformVars>>

\* StreamEvent values.
TextEvent(content) ==
  [type |-> "text", name |-> "", content |-> content, result |-> NoResult,
   toolCalls |-> <<>>, hasToolCalls |-> FALSE]
ToolStartEvent(name) ==
  [type |-> "tool_start", name |-> name, content |-> "", result |-> NoResult,
   toolCalls |-> <<>>, hasToolCalls |-> FALSE]
ToolEndEvent(name, result) ==
  [type |-> "tool_end", name |-> name, content |-> "", result |-> result,
   toolCalls |-> <<>>, hasToolCalls |-> FALSE]
DoneEvent(toolCalls, hasToolCalls) ==
  [type |-> "done", name |-> "", content |-> "", result |-> NoResult,
   toolCalls |-> IF hasToolCalls THEN toolCalls ELSE <<>>,
   hasToolCalls |-> hasToolCalls]
ErrorEvent(message) ==
  [type |-> "error", name |-> "", content |-> message, result |-> NoResult,
   toolCalls |-> <<>>, hasToolCalls |-> FALSE]

\* AgentResponse values.
AgentResponse(text, toolCalls, hasToolCalls, needsContinue) ==
  [text |-> text, toolCalls |-> IF hasToolCalls THEN toolCalls ELSE <<>>,
   hasToolCalls |-> hasToolCalls, needsContinue |-> needsContinue]

NoResponse == AgentResponse(Null, <<>>, FALSE, FALSE)

LimitNotice == "turn limit reached, please start a new conversation"
ClaudeNoClient == "error: Claude client not initialised"
OpenAINoClient == "error: OpenAI client not initialised"

\* handleError(error, toolCalls).
handleError(errorMessage, toolCalls) ==
  IF errorMessage \in {"401 invalid api_key"}
    THEN AgentResponse("error: API key invalid or not configured", <<>>, FALSE, FALSE)
    ELSE AgentResponse("error talking to the model: " \o errorMessage,
                       toolCalls, Len(toolCalls) > 0, FALSE)

\* History messages.
Message(role, content, calls, results) ==
  [role |-> role, content |-> content, calls |-> calls, results |-> results]

NoRound == Response(<<>>, <<>>, "", "none", "")

IdleFrame ==
  [agent |-> 0, api |-> "", pc |-> "idle", turn |-> 0, resp |-> NoRound,
   k |-> 0, i |-> 0, toolCalls |-> <<>>, toolResults |-> <<>>,
   toolUseBlocks |-> <<>>, pendingToolCalls |-> <<>>, fullText |-> "",
   result |-> NoResult]

\* constructor(config): cfg.maxTurns = 0 stands for an omitted (or zero)
\* maxTurns, cfg.provider = Null for an omitted provider.
Constructor(cfg) ==
  [provider |-> IF cfg.provider # Null THEN cfg.provider ELSE "claude",
   maxTurns |-> IF cfg.maxTurns # 0 THEN cfg.maxTurns ELSE DefaultMaxTurns]

\* initializeClient(): which client the constructor creates.
InitAnthropicClient(cfg) == Constructor(cfg).provider = "claude"
InitOpenAIClient(cfg) == Constructor(cfg).provider # "claude"

Providers == {"claude", "openai"}

-----------------------------------------------------------------------------
(* The orchestration loop: chat / chatStream on either protocol.  Each     *)
(* action runs one call from a point where it is suspended (a yield, or an *)
(* await on the model or on a tool handler) to the next such point.        *)

Provider(c) == config[frame[c].agent].provider

\* The rounds the model may answer with in round `turn` of call c.
FreeRounds(provider) ==
  Answers \cup ToolRounds \cup FailedRounds
  \cup (IF provider = "openai" THEN MalformedRounds ELSE {})

\* The rounds of the calls whose events are consumed one by one: the first
\* call meets answers, tool rounds and failures; the call after it the small
\* set and a failing request.
StreamRounds(c) ==
  IF c = 1
    THEN {Response(<<"done">>, <<>>, "end_turn", "none", ""),
          Response(<<"hi">>, <<Invocation("moltbook_search", QueryObj, FALSE)>>,
                   "tool_use", "none", ""),
          Response(<<>>, <<Invocation("echo", TextObj, FALSE),
                           Invocation("moltbook_get_feed", EmptyObj, FALSE)>>,
                   "tool_use", "none", "")}
         \cup FailedRounds
    ELSE SmallRounds
         \cup {Response(<<>>, <<>>, "", "request", "401 invalid api_key")}

Rounds(c, a, turn) ==
  CASE driver = "tui" -> SmallRounds
    [] driver = "stream" -> StreamRounds(c)
    [] driver = "pair" ->
         IF c = 2 /\ turn <= Len(rounds[1]) THEN {rounds[1][turn].resp}
         ELSE Answers \cup ToolRounds \cup FailedRounds
    [] OTHER -> IF stub = "stub" THEN StubRounds
                ELSE FreeRounds(config[a].provider)

\* The handler outcomes possible for invocation i of round `turn` of call c.
Outcomes(c, turn, i, name, input) ==
  IF driver = "pair" /\ c = 2 /\ turn <= Len(rounds[1])
     /\ i <= Len(rounds[1][turn].outs)
     /\ rounds[1][turn].outs[i] \in OutcomeSeqs(name, input)
    THEN {rounds[1][turn].outs[i]}
    ELSE OutcomeSeqs(name, input)

\* Mutant: tool_start is not yielded; the loop goes on to the handler.
YieldWithoutToolStart(c, f, ev) ==
  [events EXCEPT ![c] = IF f.api = "chatStream" /\ ev.type # "tool_start"
                          THEN Append(@, ev) ELSE @]

\* yield ev: chat() runs the same loop without yielding events.
Yield(c, f, ev) ==
  [events EXCEPT ![c] = IF f.api = "chatStream" THEN Append(@, ev) ELSE @]

Return(c, f, resp) ==
  [response EXCEPT ![c] = IF f.api = "chat" THEN resp ELSE @]

\* while (turn < this.config.maxTurns)
WhileTurnsLeftOffByOne(turn, maxTurns) == turn <= maxTurns

WhileTurnsLeft(turn, maxTurns) == turn < maxTurns

\* The loop head with frame f: either the next inference request is issued,
\* or the turn limit ends the call.
LoopHead(c, f) ==
  IF WhileTurnsLeft(f.turn, config[f.agent].maxTurns)
    THEN \E r \in Rounds(c, f.agent, f.turn + 1) :
           /\ frame' = [frame EXCEPT ![c] =
                [f EXCEPT !.turn = f.turn + 1, !.pc = "model", !.resp = r,
                          !.k = 0, !.i = 0, !.toolResults = <<>>,
                          !.toolUseBlocks = <<>>, !.pendingToolCalls = <<>>,
                          !.fullText = "", !.result = NoResult]]
           /\ requests' = [requests EXCEPT ![c] = @ + 1]
           /\ rounds' = [rounds EXCEPT ![c] = Append(@, [resp |-> r, outs |-> <<>>])]
           /\ UNCHANGED <<events, response>>
    ELSE /\ frame' = [frame EXCEPT ![c] = [f EXCEPT !.pc = "closed"]]
         /\ events' = Yield(c, f, DoneEvent(f.toolCalls, TRUE))
         /\ response' = Return(c, f, AgentResponse(LimitNotice, f.toolCalls, TRUE, TRUE))
         /\ UNCHANGED <<requests, rounds>>

\* Mutant: the catch block leaves the loop and the final done is still yielded.
CatchErrorThenDone(c, f, message) ==
  /\ frame' = [frame EXCEPT ![c] = [f EXCEPT !.pc = "closed"]]
  /\ events' = [events EXCEPT ![c] =
       IF f.api = "chatStream"
         THEN @ \o <<ErrorEvent(message), DoneEvent(f.toolCalls, TRUE)>>
         ELSE @]
  /\ response' = Return(c, f, AgentResponse(LimitNotice, f.toolCalls, TRUE, TRUE))
  /\ UNCHANGED <<requests, rounds>>

\* catch (error): the call ends with an error event / handleError response.
CatchError(c, f, message) ==
  /\ frame' = [frame EXCEPT ![c] = [f EXCEPT !.pc = "closed"]]
  /\ events' = Yield(c, f, ErrorEvent(message))
  /\ response' = Return(c, f, handleError(message, f.toolCalls))
  /\ UNCHANGED <<requests, rounds>>

\* The call ends normally: done event / response with the text.
Finish(c, f, text) ==
  /\ frame' = [frame EXCEPT ![c] = [f EXCEPT !.pc = "closed"]]
  /\ events' = Yield(c, f, DoneEvent(f.toolCalls, Len(f.toolCalls) > 0))
  /\ response' = Return(c, f, AgentResponse(text, f.toolCalls,
                                            Len(f.toolCalls) > 0, FALSE))
  /\ UNCHANGED <<requests, rounds>>

\* chat(userMessage) / chatStream(userMessage) on agent a up to the first
\* inference request.
ChatStart(c, a, api, userMessage) ==
  LET f == [IdleFrame EXCEPT !.agent = a, !.api = api]
  IN  /\ frame[c].pc = "idle"
      /\ UNCHANGED handlerRuns
      /\ IF config[a].provider = "claude"
           THEN IF ~anthropicClient[a]
                  THEN /\ frame' = [frame EXCEPT ![c] = [f EXCEPT !.pc = "closed"]]
                       /\ events' = Yield(c, f, ErrorEvent(ClaudeNoClient))
                       /\ response' = Return(c, f, AgentResponse(ClaudeNoClient,
                                                                 <<>>, FALSE, FALSE))
                       /\ UNCHANGED <<requests, rounds, conversationHistory,
                                      openaiHistory>>
                  ELSE /\ conversationHistory' = [conversationHistory EXCEPT ![a] =
                            Append(@, Message("user", userMessage, <<>>, <<>>))]
                       /\ UNCHANGED openaiHistory
                       /\ LoopHead(c, f)
           ELSE IF ~openaiClient[a]
                  THEN /\ frame' = [frame EXCEPT ![c] = [f EXCEPT !.pc = "closed"]]
                       /\ events' = Yield(c, f, ErrorEvent(OpenAINoClient))
                       /\ response' = Return(c, f, AgentResponse(OpenAINoClient,
                                                                 <<>>, FALSE, FALSE))
                       /\ UNCHANGED <<requests, rounds, conversationHistory,
                                      openaiHistory>>
                  ELSE /\ openaiHistory' = [openaiHistory EXCEPT ![a] =
                            Append(IF Len(@) = 0
                                     THEN <<Message("system", "system prompt", <<>>, <<>>)>>
                                     ELSE @,
                                   Message("user", userMessage, <<>>, <<>>))]
                       /\ UNCHANGED conversationHistory
                       /\ LoopHead(c, f)

\* The index of the first stream item after k that makes the loop yield a
\* text event; 0 when there is none.
IsTextDelta(ev) == ev.type = "content_block_delta" /\ ev.delta = "text_delta"

NextTextDelta(stream, k) ==
  LET S == {j \in (k + 1)..Len(stream) : IsTextDelta(stream[j])}
  IN  IF S = {} THEN 0 ELSE CHOOSE j \in S : \A n \in S : j <= n

NextContentChunk(chunks, k) ==
  LET S == {j \in (k + 1)..Len(chunks) : Truthy(chunks[j].content)}
  IN  IF S = {} THEN 0 ELSE CHOOSE j \in S : \A n \in S : j <= n

\* chatStreamWithClaude / chatWithClaude while the response arrives.
ClaudeModelStep(c) ==
  LET f == frame[c]
      a == f.agent
      stream == ClaudeStream(f.resp)
      j == IF f.api = "chatStream" THEN NextTextDelta(stream, f.k) ELSE 0
      toolUseBlocks == ClaudeToolUseBlocks(f.resp, c, f.turn)
      text == JoinTexts(f.resp.texts)
  IN  IF j # 0
        THEN /\ frame' = [frame EXCEPT ![c] = [f EXCEPT !.k = j]]
             /\ events' = Yield(c, f, TextEvent(stream[j].text))
             /\ UNCHANGED <<response, requests, rounds, conversationHistory>>
      ELSE IF f.resp.fail # "none"
        THEN /\ CatchError(c, f, f.resp.error)
             /\ UNCHANGED conversationHistory
      ELSE IF Len(toolUseBlocks) = 0
        THEN /\ conversationHistory' = [conversationHistory EXCEPT ![a] =
                  Append(@, Message("assistant", text, <<>>, <<>>))]
             /\ Finish(c, f, TextResponse(f.resp.texts))
      ELSE /\ frame' = [frame EXCEPT ![c] =
                [f EXCEPT !.pc = "tool_start", !.i = 1, !.k = Len(stream),
                          !.toolUseBlocks = toolUseBlocks]]
           /\ events' = Yield(c, f, ToolStartEvent(toolUseBlocks[1].name))
           /\ UNCHANGED <<response, requests, rounds, conversationHistory>>

\* tool_calls of the assistant message pushed to openaiHistory.
AssistantToolCalls(pending) ==
  [n \in 1..Len(pending) |->
     [id |-> pending[n].id, name |-> pending[n].name,
      arguments |-> pending[n].arguments]]

\* chatStreamWithOpenAI / chatWithOpenAI while the response arrives.
OpenAIModelStep(c) ==
  LET f == frame[c]
      a == f.agent
      streaming == f.api = "chatStream"
      chunks == OpenAIChunks(f.resp, c, f.turn)
      \* the rest of the loop body for the chunk whose text was yielded
      fullText == IF streaming /\ f.k > 0 THEN f.fullText \o chunks[f.k].content
                  ELSE f.fullText
      pending1 == IF streaming /\ f.k > 0
                    THEN AccumulateToolCalls(f.pendingToolCalls, chunks[f.k].tool_calls)
                    ELSE f.pendingToolCalls
      j == IF streaming THEN NextContentChunk(chunks, f.k) ELSE 0
      last == IF j # 0 THEN j - 1 ELSE Len(chunks)
      pending == IF streaming
                   THEN AccumulateChunks(pending1, chunks, f.k + 1, last)
                   ELSE OpenAIMessageToolCalls(f.resp, c, f.turn)
      messageContent == IF f.resp.texts = <<>> THEN Null ELSE JoinTexts(f.resp.texts)
      \* content of the assistant message that goes into the history
      withTools == IF streaming THEN (IF Truthy(fullText) THEN fullText ELSE Null)
                   ELSE messageContent
      withoutTools == IF streaming THEN fullText ELSE messageContent
      text == IF streaming THEN fullText
              ELSE IF Truthy(messageContent) THEN messageContent ELSE ""
  IN  IF j # 0
        THEN /\ frame' = [frame EXCEPT ![c] =
                  [f EXCEPT !.k = j, !.fullText = fullText,
                            !.pendingToolCalls = pending]]
             /\ events' = Yield(c, f, TextEvent(chunks[j].content))
             /\ UNCHANGED <<response, requests, rounds, openaiHistory>>
      ELSE IF f.resp.fail # "none"
        THEN /\ CatchError(c, f, f.resp.error)
             /\ UNCHANGED openaiHistory
      ELSE IF Len(pending) > 0
        THEN /\ openaiHistory' = [openaiHistory EXCEPT ![a] =
                  Append(@, Message("assistant", withTools,
                                    AssistantToolCalls(pending), <<>>))]
             /\ frame' = [frame EXCEPT ![c] =
                  [f EXCEPT !.pc = "tool_start", !.i = 1, !.k = Len(chunks),
                            !.fullText = fullText, !.pendingToolCalls = pending]]
             /\ events' = Yield(c, f, ToolStartEvent(pending[1].name))
             /\ UNCHANGED <<response, requests, rounds>>
      ELSE /\ openaiHistory' = [openaiHistory EXCEPT ![a] =
                Append(@, Message("assistant", withoutTools, <<>>, <<>>))]
           /\ Finish(c, [f EXCEPT !.fullText = fullText], text)

\* What a step of a call leaves alone.
StepFrame == UNCHANGED <<driver, stub, config, anthropicClient, openaiClient,
                         tuiVars, platformVars>>

\* The awaited stream delivers: the consumer of the call gets its next event.
ModelStep(c) ==
  /\ frame[c].pc = "model"
  /\ StepFrame
  /\ UNCHANGED handlerRuns
  /\ IF Provider(c) = "claude"
       THEN ClaudeModelStep(c) /\ UNCHANGED openaiHistory
       ELSE OpenAIModelStep(c) /\ UNCHANGED conversationHistory

\* The invocation the loop is at: its id, its name and the input that is
\* handed to executeTool.  On the OpenAI protocol the argument text is parsed
\* here, and {} is used when JSON.parse throws.
FunctionArgs(arguments) ==
  IF JSONparse(arguments).ok THEN JSONparse(arguments).value ELSE EmptyObj

CurrentInvocation(c) ==
  LET f == frame[c]
  IN  IF Provider(c) = "claude"
        THEN f.toolUseBlocks[f.i]
        ELSE [id |-> f.pendingToolCalls[f.i].id,
              name |-> f.pendingToolCalls[f.i].name,
              input |-> FunctionArgs(f.pendingToolCalls[f.i].arguments)]

InvocationCount(c) ==
  IF Provider(c) = "claude" THEN Len(frame[c].toolUseBlocks)
  ELSE Len(frame[c].pendingToolCalls)

\* From the yield of tool_start: executeTool runs, the call is recorded in
\* toolCalls, tool_end is yielded.
ExecuteToolStep(c) ==
  LET f == frame[c]
      inv == CurrentInvocation(c)
  IN  /\ f.pc = "tool_start"
      /\ StepFrame
      /\ UNCHANGED <<conversationHistory, openaiHistory>>
      /\ \E outs \in Outcomes(c, f.turn, f.i, inv.name, inv.input) :
           LET r == executeTool(inv.name, inv.input, outs)
           IN  /\ handlerRuns' = [handlerRuns EXCEPT ![c] =
                    @ \o [n \in 1..Len(r.runs) |->
                            [id |-> IF n = 1 THEN inv.id ELSE NoId,
                             name |-> r.runs[n].name, input |-> r.runs[n].input]]]
               /\ IF r.threw
                    THEN /\ CatchError(c, f, "tool threw")
                    ELSE /\ frame' = [frame EXCEPT ![c] =
                              [f EXCEPT !.pc = "tool_end", !.result = r.result,
                                        !.toolCalls = Append(@,
                                           [name |-> inv.name, input |-> inv.input,
                                            output |-> r.result])]]
                         /\ events' = Yield(c, f, ToolEndEvent(inv.name, r.result))
                         /\ rounds' = [rounds EXCEPT ![c][f.turn].outs = Append(@, outs)]
                         /\ UNCHANGED <<response, requests>>

\* toolResults.push({type: "tool_result", tool_use_id, content}).
ToolResultBlock(toolUse, result) ==
  [tool_use_id |-> toolUse.id, content |-> result]

\* Mutant: the tool message does not carry the id of its tool call.
ToolMessageWithoutId(tc, result) ==
  Message("tool", "", <<>>, <<[tool_call_id |-> NoId, content |-> result]>>)

\* Mutant: the tool message is pushed without the handler's result.
ToolMessageWithoutResult(tc, result) ==
  Message("tool", "", <<>>, <<[tool_call_id |-> tc.id, content |-> NoResult]>>)

\* openaiHistory.push({role: "tool", tool_call_id: tc.id, content}).
ToolMessage(tc, result) ==
  Message("tool", "", <<>>, <<[tool_call_id |-> tc.id, content |-> result]>>)

\* if (finalMessage.stop_reason === "end_turn") after a tool round.
EndsAfterToolRound(stop_reason) == stop_reason = "end_turn"

\* From the yield of tool_end on the Claude protocol: the result joins
\* toolResults; then the next tool_start, or the round is closed (history
\* updated) and the loop goes on or ends.
ClaudeAfterToolEnd(c) ==
  LET f == frame[c]
      a == f.agent
      toolResults == Append(f.toolResults,
                            ToolResultBlock(f.toolUseBlocks[f.i], f.result))
      g == [f EXCEPT !.toolResults = toolResults]
  IN  IF f.i < Len(f.toolUseBlocks)
        THEN /\ frame' = [frame EXCEPT ![c] =
                  [g EXCEPT !.pc = "tool_start", !.i = f.i + 1]]
             /\ events' = Yield(c, f, ToolStartEvent(f.toolUseBlocks[f.i + 1].name))
             /\ UNCHANGED <<response, requests, rounds, conversationHistory>>
        ELSE /\ conversationHistory' = [conversationHistory EXCEPT ![a] =
                  @ \o <<Message("assistant", JoinTexts(f.resp.texts),
                                 f.toolUseBlocks, <<>>),
                         Message("user", "", <<>>, toolResults)>>]
             /\ IF EndsAfterToolRound(f.resp.stop)
                  THEN /\ frame' = [frame EXCEPT ![c] = [g EXCEPT !.pc = "closed"]]
                       /\ events' = Yield(c, f, DoneEvent(f.toolCalls, TRUE))
                       /\ response' = Return(c, f,
                            AgentResponse(TextResponse(f.resp.texts), f.toolCalls,
                                          TRUE, FALSE))
                       /\ UNCHANGED <<requests, rounds>>
                  ELSE LoopHead(c, g)

\* From the yield of tool_end on the OpenAI protocol: the tool message is
\* pushed; then the next tool_start, or `continue`.
OpenAIAfterToolEnd(c) ==
  LET f == frame[c]
      a == f.agent
  IN  /\ openaiHistory' = [openaiHistory EXCEPT ![a] =
            Append(@, ToolMessage(f.pendingToolCalls[f.i], f.result))]
      /\ IF f.i < Len(f.pendingToolCalls)
           THEN /\ frame' = [frame EXCEPT ![c] =
                     [f EXCEPT !.pc = "tool_start", !.i = f.i + 1]]
                /\ events' = Yield(c, f,
                     ToolStartEvent(f.pendingToolCalls[f.i + 1].name))
                /\ UNCHANGED <<response, requests, rounds>>
           ELSE LoopHead(c, f)

AfterToolEnd(c) ==
  /\ frame[c].pc = "tool_end"
  /\ StepFrame
  /\ UNCHANGED handlerRuns
  /\ IF Provider(c) = "claude"
       THEN ClaudeAfterToolEnd(c) /\ UNCHANGED openaiHistory
       ELSE OpenAIAfterToolEnd(c) /\ UNCHANGED conversationHistory

-----------------------------------------------------------------------------
(* Callers.                                                                *)

InProgress(c) == frame[c].pc \notin {"idle", "closed"}

\* A caller that awaits the call it made (executeCommand, an RPC peer).
CallChat ==
  /\ driver = "single"
  /\ \E api \in {"chat", "chatStream"} : ChatStart(1, 1, api, "hello")
  /\ UNCHANGED <<driver, stub, config, anthropicClient, openaiClient, tuiVars,
                 platformVars>>

\* A chatStream call is suspended at a yield: its consumer holds the event
\* and has not asked for the next one.
Suspended(c) ==
  \/ frame[c].pc \in {"tool_start", "tool_end"}
  \/ frame[c].pc = "model" /\ frame[c].k > 0

Ended(c) == frame[c].pc \in {"closed", "abandoned"}

\* A consumer that iterates agent.chatStream(message) on one agent, one call
\* after the other.
ChatStreamCall ==
  /\ driver = "stream"
  /\ \E c \in Calls :
       /\ c = 2 => Ended(1)
       /\ ChatStart(c, 1, "chatStream", "hello")
  /\ UNCHANGED <<driver, stub, config, anthropicClient, openaiClient, tuiVars,
                 platformVars>>

\* The consumer stops iterating (break, return, or it never calls next()
\* again): the generator stays at the yield it is suspended at.
Abandon(c) ==
  /\ driver = "stream"
  /\ Suspended(c)
  /\ frame' = [frame EXCEPT ![c].pc = "abandoned"]
  /\ UNCHANGED <<events, response, requests, handlerRuns, rounds,
                 conversationHistory, openaiHistory>>
  /\ UNCHANGED <<driver, stub, config, anthropicClient, openaiClient, tuiVars,
                 platformVars>>

\* The same message given to a Claude agent and then to an OpenAI agent.
PairChatStream ==
  /\ driver = "pair"
  /\ \E c \in Calls :
       /\ c = 2 => frame[1].pc = "closed"
       /\ ChatStart(c, c, "chatStream", "hello")
  /\ UNCHANGED <<driver, stub, config, anthropicClient, openaiClient, tuiVars,
                 platformVars>>

\* TuiApp: Return pressed in chat mode, submit(input).  Text that starts
\* with "/" runs a builtin command; other text is appended to the lines and
\* runChat iterates execChat(message) = agent.chatStream(message).
TuiSubmit ==
  /\ driver = "tui"
  /\ \E text \in {"/help", "hello"} :
       IF text = "/help"
         THEN /\ ~builtinPending
              /\ builtinPending' = TRUE
              /\ isBusyRef' = TRUE
              /\ UNCHANGED <<callVars, conversationHistory, openaiHistory,
                             tuiRunning>>
         ELSE \E c \in Calls :
                /\ \A d \in Calls : d < c => frame[d].pc # "idle"
                /\ isBusyRef' = TRUE
                /\ tuiRunning' = tuiRunning \cup {c}
                /\ ChatStart(c, 1, "chatStream", text)
                /\ UNCHANGED builtinPending
  /\ UNCHANGED <<driver, stub, config, anthropicClient, openaiClient,
                 platformVars>>

\* submit's finally block once runChat / runBuiltin has returned.
TuiSubmitReturns ==
  /\ driver = "tui"
  /\ \/ /\ builtinPending
        /\ builtinPending' = FALSE
        /\ UNCHANGED tuiRunning
     \/ /\ \E c \in tuiRunning :
             /\ frame[c].pc = "closed"
             /\ tuiRunning' = tuiRunning \ {c}
        /\ UNCHANGED builtinPending
  /\ isBusyRef' = FALSE
  /\ UNCHANGED <<driver, stub, agentVars, callVars, platformVars>>

-----------------------------------------------------------------------------
(* The identity store (identity.ts) and the transport (tools.ts apiRequest). *)

\* tools.ts:25  const DEFAULT_MAX_RETRIES = 3
DEFAULT_MAX_RETRIES == 3

\* tools.ts:28  const RETRY_DELAY_BASE_MS = 1000
RETRY_DELAY_BASE_MS == 1000

Identity(api_key, last_active) == [api_key |-> api_key, last_active |-> last_active]

IdentitiesConfig(default, identities) ==
  [default |-> default, identities |-> identities]

\* `null` where an Identity is expected.
NoIdentity == Identity(Null, 0)

NoIdentities == [n \in {} |-> NoIdentity]

\* The contents of identities.json that loadConfig() may have read: no
\* identity; alice as the default; alice without a default; alice with an
\* empty api_key; alice with a default that names no identity.
IdentityStores ==
  {IdentitiesConfig(Null, NoIdentities),
   IdentitiesConfig("alice", [n \in {"alice"} |-> Identity("key-a", 0)]),
   IdentitiesConfig(Null, [n \in {"alice"} |-> Identity("key-a", 0)]),
   IdentitiesConfig("alice", [n \in {"alice"} |-> Identity("", 0)]),
   IdentitiesConfig("bob", [n \in {"alice"} |-> Identity("key-a", 0)])}

\* The identityName arguments a caller may pass; Null is `undefined`.
IdentityNames == {Null, "alice", " alice ", "bob", " "}

\* String.prototype.trim on the names that occur.
trim(name) ==
  CASE name = " alice " -> "alice"
    [] name = " " -> ""
    [] OTHER -> name

\* A string (or undefined) used as a condition.
Falsy(v) == v \in {Null, ""}

\* identityManager.getCurrent()
getCurrent(cfg) ==
  IF Falsy(cfg.default) THEN NoIdentity
  ELSE IF cfg.default \in DOMAIN cfg.identities
    THEN cfg.identities[cfg.default]
    ELSE NoIdentity

\* identityManager.get(name)
get(cfg, name) ==
  IF name \in DOMAIN cfg.identities THEN cfg.identities[name] ELSE NoIdentity

\* Mutant: a name that is not in the store falls back to the default identity.
getApiKeyOrDefault(cfg, name) ==
  LET identity == IF ~Falsy(name) /\ get(cfg, name) # NoIdentity
                    THEN get(cfg, name) ELSE getCurrent(cfg)
  IN  IF identity = NoIdentity \/ Falsy(identity.api_key) THEN Null
      ELSE identity.api_key

\* identityManager.getApiKey(name)
getApiKey(cfg, name) ==
  LET identity == IF ~Falsy(name) THEN get(cfg, name) ELSE getCurrent(cfg)
  IN  IF identity = NoIdentity \/ Falsy(identity.api_key) THEN Null
      ELSE identity.api_key

\* identityManager.updateLastActive(name) at time `now`: the configuration
\* it leaves in memory, and whether it calls saveConfig().
updateLastActive(cfg, name, now) ==
  LET identityName == IF ~Falsy(name) THEN name ELSE cfg.default
  IN  IF ~Falsy(identityName) /\ identityName \in DOMAIN cfg.identities
        THEN [config |-> [cfg EXCEPT !.identities[identityName].last_active = now],
              saves |-> TRUE]
        ELSE [config |-> cfg, saves |-> FALSE]

\* saveConfig(): the write succeeds, or it fails and saveConfig throws.
SaveOutcomes == {"saved", "throws"}

\* A JavaScript value of a field: null, undefined, NaN, a number, an ISO
\* timestamp string (t = its time in ms), or some other string.
Val(kind, t) == [kind |-> kind, t |-> t]
JsNull == Val("null", 0)
Undefined == Val("undefined", 0)
NaN == Val("NaN", 0)
Num(n) == Val("number", n)
Text == Val("text", 0)

\* A response body.  parses = FALSE: response.json() throws and the data is
\* {}.  Fields the body does not carry are Null (undefined).
Body(parses, payload, error, hint, seconds, minutes, remaining) ==
  [parses |-> parses, payload |-> payload, error |-> error, hint |-> hint,
   retry_after_seconds |-> seconds, retry_after_minutes |-> minutes,
   daily_remaining |-> remaining]

NoBody == Body(FALSE, Null, Null, Null, Undefined, Undefined, Undefined)

\* data = await response.json(), or {} when that throws.
ResponseData(body) ==
  IF body.parses THEN body
  ELSE Body(TRUE, Null, Null, Null, Undefined, Undefined, Undefined)

HttpResponse(status, body) == [status |-> status, body |-> body]

\* fetch rejected: no response.
NetworkError == HttpResponse(0, NoBody)

\* What the platform may answer to one HTTP request.
HttpResponses ==
  {HttpResponse(200, Body(TRUE, "posts", Null, Null, Undefined, Undefined,
                          Undefined)),
   HttpResponse(204, NoBody),
   HttpResponse(429, Body(TRUE, Null, "slow down", "wait", Undefined, Num(30),
                          Num(4))),
   HttpResponse(429, NoBody),
   HttpResponse(404, Body(TRUE, Null, "not found", "check the id", Undefined,
                          Undefined, Undefined)),
   HttpResponse(400, Body(TRUE, Null, "Search failed", Null, Undefined,
                          Undefined, Undefined)),
   HttpResponse(500, Body(TRUE, Null, "Search failed", Null, Undefined,
                          Undefined, Undefined)),
   HttpResponse(503, NoBody),
   NetworkError}

\* response.ok
ok(res) == res.status >= 200 /\ res.status <= 299

NoRateLimit == [retryAfterSeconds |-> Undefined, retryAfterMinutes |-> Undefined,
                dailyRemaining |-> Undefined, present |-> FALSE]

\* ApiResponse<T>; status and retries are debug.status and debug.retries.
ApiResponse(success, data, error, hint, status, retries, rateLimit) ==
  [success |-> success, data |-> data, error |-> error, hint |-> hint,
   status |-> status, retries |-> retries, rateLimit |-> rateLimit]

NoApiResponse == ApiResponse(FALSE, Null, Null, Null, 0, 0, NoRateLimit)

\* The failure returned when no api key resolves.
NoCredential ==
  ApiResponse(FALSE, Null, "no identity or API key available",
              "run 'openecho identity add' first", 401, 0, NoRateLimit)

ApiStatusText(status) ==
  CASE status = 400 -> "HTTP 400"
    [] status = 404 -> "HTTP 404"
    [] status = 429 -> "HTTP 429"
    [] status = 500 -> "HTTP 500"
    [] status = 503 -> "HTTP 503"
    [] OTHER -> "HTTP"

IdleApiCall ==
  [pc |-> "idle", identityName |-> Null, apiKey |-> Null, maxRetries |-> 0,
   attempt |-> 0, lastError |-> "", lastStatus |-> 0, responses |-> <<>>,
   result |-> NoApiResponse]

ApiReturn(f, result) ==
  apiCall' = [f EXCEPT !.pc = "returned", !.result = result]

\* apiRequest(endpoint, options, identityName) up to its first fetch.
apiRequestCall(identityName) ==
  LET normalizedIdentity == IF Falsy(identityName) \/ Falsy(trim(identityName))
                              THEN Null ELSE trim(identityName)
      apiKey == getApiKey(identityConfig, normalizedIdentity)
      f == [IdleApiCall EXCEPT !.identityName = identityName,
                               !.apiKey = apiKey,
                               !.maxRetries = DEFAULT_MAX_RETRIES]
  IN  /\ apiCall.pc = "idle"
      /\ IF apiKey = Null
           THEN /\ ApiReturn(f, NoCredential)
                /\ UNCHANGED fetches
           ELSE /\ apiCall' = [f EXCEPT !.pc = "fetch", !.attempt = 1]
                /\ fetches' = fetches + 1
      /\ UNCHANGED <<identityVars, sleeps>>

\* One apiRequest call made on its own.
apiRequest(identityName) ==
  /\ driver = "api"
  /\ apiRequestCall(identityName)
  /\ UNCHANGED <<loopVars, heartbeatVars, toolVars>>

\* Mutant: the loop bound is off by one (attempt <= maxRetries + 1).
RetryOrGiveUpOneMore(f, lastError, giveUp) ==
  IF f.attempt <= f.maxRetries
    THEN /\ apiCall' = [f EXCEPT !.pc = "sleep", !.lastError = lastError]
         /\ sleeps' = Append(sleeps, RETRY_DELAY_BASE_MS * f.attempt)
    ELSE /\ ApiReturn([f EXCEPT !.lastError = lastError], giveUp)
         /\ UNCHANGED sleeps

\* A retryable failure of attempt f.attempt: sleep and retry while attempts
\* remain, otherwise `giveUp` is returned.
RetryOrGiveUp(f, lastError, giveUp) ==
  IF f.attempt < f.maxRetries
    THEN /\ apiCall' = [f EXCEPT !.pc = "sleep", !.lastError = lastError]
         /\ sleeps' = Append(sleeps, RETRY_DELAY_BASE_MS * f.attempt)
    ELSE /\ ApiReturn([f EXCEPT !.lastError = lastError], giveUp)
         /\ UNCHANGED sleeps

\* catch (error) of the retry loop, and the return after the loop.
ApiCatch(f, message) ==
  LET lastError == "network request failed: " \o message
  IN  RetryOrGiveUp(f, lastError,
        ApiResponse(FALSE, Null, lastError, "check the network, or retry later",
                    f.lastStatus, f.maxRetries, NoRateLimit))

\* if (response.ok): touch the identity store, return success.
SuccessBranch(f, data, save) ==
  LET touch == updateLastActive(identityConfig, f.identityName, fetches)
  IN  /\ identityConfig' = touch.config
      /\ saveLog' = IF touch.saves THEN Append(saveLog, save) ELSE saveLog
      /\ touch.saves \/ save = "saved"
      /\ IF touch.saves /\ save = "throws"
           THEN ApiCatch(f, "Error: saving the identity configuration failed")
           ELSE /\ ApiReturn(f, ApiResponse(TRUE, data, Null, Null, 0, 0,
                                            NoRateLimit))
                /\ UNCHANGED sleeps

\* if (response.status === 429): returned at once with the body's limits.
RateLimitBranch(f, data) ==
  ApiReturn(f,
    ApiResponse(FALSE, Null,
                IF Falsy(data.error) THEN "too many requests" ELSE data.error,
                data.hint, 429, f.attempt,
                [retryAfterSeconds |-> data.retry_after_seconds,
                 retryAfterMinutes |-> data.retry_after_minutes,
                 dailyRemaining |-> data.daily_remaining,
                 present |-> TRUE]))

\* Mutant: a client error is treated as retryable.
ClientErrorBranchRetries(f, data, status) ==
  RetryOrGiveUp(f, "client error",
    ApiResponse(FALSE, Null,
                IF Falsy(data.error)
                  THEN "request failed: " \o ApiStatusText(status)
                  ELSE data.error,
                data.hint, status, f.attempt, NoRateLimit))

\* if (response.status >= 400 && response.status < 500): returned at once.
ClientErrorBranch(f, data, status) ==
  /\ ApiReturn(f,
       ApiResponse(FALSE, Null,
                   IF Falsy(data.error)
                     THEN "request failed: " \o ApiStatusText(status)
                     ELSE data.error,
                   data.hint, status, f.attempt, NoRateLimit))
  /\ UNCHANGED sleeps

\* Any other status: a server error, retried while attempts remain.
ServerErrorBranch(f, data, status) ==
  LET lastError == IF Falsy(data.error)
                     THEN "server error: " \o ApiStatusText(status)
                     ELSE data.error
  IN  RetryOrGiveUp(f, lastError,
        ApiResponse(FALSE, Null, lastError, data.hint, status, f.attempt,
                    NoRateLimit))

\* The awaited fetch of the current attempt settles with the response `res`; `save`
\* is what saveConfig() does if the success branch calls it.
apiRequestAttempt ==
  /\ apiCall.pc = "fetch"
  /\ UNCHANGED <<fetches, loopVars, heartbeatVars, toolVars>>
  /\ \E res \in HttpResponses, save \in SaveOutcomes :
       LET f == [apiCall EXCEPT !.responses = Append(@, res),
                                !.lastStatus = IF res = NetworkError
                                                 THEN @ ELSE res.status]
           data == ResponseData(res.body)
       IN  IF res = NetworkError
             THEN /\ save = "saved"
                  /\ ApiCatch(f, "TypeError: fetch failed")
                  /\ UNCHANGED identityVars
           ELSE IF ok(res)
             THEN SuccessBranch(f, data, save)
           ELSE /\ save = "saved"
                /\ UNCHANGED identityVars
                /\ IF res.status = 429
                     THEN RateLimitBranch(f, data) /\ UNCHANGED sleeps
                   ELSE IF res.status >= 400 /\ res.status < 500
                     THEN ClientErrorBranch(f, data, res.status)
                   ELSE ServerErrorBranch(f, data, res.status)

\* sleep(RETRY_DELAY_BASE_MS * attempt) is over: `continue`, the next fetch.
apiRequestRetry ==
  /\ apiCall.pc = "sleep"
  /\ apiCall' = [apiCall EXCEPT !.pc = "fetch", !.attempt = @ + 1]
  /\ fetches' = fetches + 1
  /\ UNCHANGED <<identityVars, sleeps, loopVars, heartbeatVars, toolVars>>

-----------------------------------------------------------------------------
(* The cooldown tracker (heartbeat.ts HeartbeatManager).                   *)

\* Ticks of the clock plus state-changing calls made on one tracker.
MaxSteps == 4

\* new Date(ms).toISOString(): millisecond precision, so Date.parse of the
\* string gives ms back.
toISOString(ms) == Val("iso", ms)

\* A field value used as a condition: if (!this.state.lastPost).
ValTruthy(v) ==
  CASE v.kind \in {"iso", "text"} -> TRUE
    [] v.kind = "number" -> v.t # 0
    [] OTHER -> FALSE

\* new Date(v).getTime()
getTime(v) ==
  CASE v.kind \in {"iso", "number"} -> Num(v.t)
    [] v.kind = "null" -> Num(0)
    [] OTHER -> NaN

\* this.state: shape is "object" for an object, otherwise the JSON value
\* that loadState() returned ("null", "number").
HeartbeatState(shape, lastCheck, lastPost, lastComment, checkCount, lastResult) ==
  [shape |-> shape, lastCheck |-> lastCheck, lastPost |-> lastPost,
   lastComment |-> lastComment, checkCount |-> checkCount,
   lastResult |-> lastResult]

\* The default state of loadState().
DefaultState == HeartbeatState("object", JsNull, JsNull, JsNull, Num(0), "null")

\* A state that is not an object: its properties read as undefined.
NonObject(shape) ==
  HeartbeatState(shape, Undefined, Undefined, Undefined, Undefined, "undefined")

\* heartbeat-state.json: absent, unreadable (readFileSync throws), text that
\* is not JSON, or JSON text (value = what JSON.parse returns).
Doc(kind, value) == [kind |-> kind, value |-> value]

\* The base time of a run and the times earlier posts were recorded at.
StartTime == 7200000
EarlierTimes == {StartTime - 1800000, StartTime - 10000}

\* Documents written by saveState() of an earlier run.
WellFormedDocs ==
  {Doc("json", DefaultState)}
  \cup {Doc("json", HeartbeatState("object", toISOString(t), toISOString(t),
                                   toISOString(t), Num(1), "success"))
          : t \in EarlierTimes}

\* Documents that are absent, unreadable or not JSON.
UnparsableDocs ==
  {Doc("absent", DefaultState), Doc("unreadable", DefaultState),
   Doc("not-json", DefaultState)}

\* JSON documents that are not a state object: null, 42, {}, and an object
\* whose lastPost is not a timestamp.
WrongShapeDocs ==
  {Doc("json", NonObject("null")),
   Doc("json", NonObject("number")),
   Doc("json", HeartbeatState("object", Undefined, Undefined, Undefined,
                              Undefined, "undefined")),
   Doc("json", HeartbeatState("object", JsNull, Text, JsNull, Num(0), "null"))}

\* loadState(): JSON.parse of the file, the default state when the file is
\* absent or reading / parsing throws.
loadState(doc) ==
  IF doc.kind = "json" THEN doc.value ELSE DefaultState

\* JSON.parse(JSON.stringify(state)): NaN becomes null.
ToJSON(state) ==
  [state EXCEPT !.checkCount = IF @ = NaN THEN JsNull ELSE @]

\* What a call made at Date.now() = clock returned: threw = TRUE when it
\* threw a TypeError.
Returned(op, value) ==
  [op |-> op, value |-> value, threw |-> FALSE, time |-> clock,
   fetched |-> <<>>]
Threw(op) ==
  [op |-> op, value |-> FALSE, threw |-> TRUE, time |-> clock,
   fetched |-> <<>>]
NoCall ==
  [op |-> "", value |-> FALSE, threw |-> FALSE, time |-> 0, fetched |-> <<>>]

\* Reading a property of this.state throws when the state is null.
ReadThrows(state) == state.shape = "null"

\* Assigning a property of this.state throws when the state is null or a
\* primitive (class bodies are strict code).
WriteThrows(state) == state.shape \in {"null", "number"}

\* Mutant: the post cooldown compares with > instead of >=.
canPostStrict(state, time) ==
  IF ~ValTruthy(state.lastPost) THEN TRUE
  ELSE LET lastPostTime == getTime(state.lastPost)
           cooldownMs == 30 * 60 * 1000
       IN  lastPostTime # NaN /\ time - lastPostTime.t > cooldownMs

\* canPost() at Date.now() = time, for a state whose properties can be read.
canPost(state, time) ==
  IF ~ValTruthy(state.lastPost) THEN TRUE
  ELSE LET lastPostTime == getTime(state.lastPost)
           cooldownMs == 30 * 60 * 1000
       IN  lastPostTime # NaN /\ time - lastPostTime.t >= cooldownMs

\* canComment() at Date.now() = time.
canComment(state, time) ==
  IF ~ValTruthy(state.lastComment) THEN TRUE
  ELSE LET lastCommentTime == getTime(state.lastComment)
           cooldownMs == 20 * 1000
       IN  lastCommentTime # NaN /\ time - lastCommentTime.t >= cooldownMs

\* The clock advances by 10 seconds or by 29 minutes 50 seconds.
ClockSteps == {10000, 1790000}

IdleRun == [pc |-> "idle", timestamp |-> JsNull]

\* saveState(): the state is written, or the write fails and the error is
\* logged; `outcome` says which.
saveState(state, outcome) ==
  heartbeatStateFile' = IF outcome = "saved" THEN Doc("json", ToJSON(state))
                        ELSE heartbeatStateFile

WriteOutcomes == {"saved", "failed"}

HeartbeatFrame ==
  UNCHANGED <<loopVars, identityVars, apiVars, toolVars, peerTracker>>

\* Time passes.
Tick ==
  /\ \/ driver = "cooldown"
     \/ driver = "race"
     \/ driver = "shared"
     \/ driver = "peers"
  /\ steps < MaxSteps
  /\ \E d \in ClockSteps : clock' = clock + d
  /\ steps' = steps + 1
  /\ UNCHANGED <<heartbeatState, heartbeatStateFile, heartbeatCall,
                 heartbeatRun, lastPostAt, lastCommentAt>>
  /\ HeartbeatFrame

\* A caller evaluates canPost(), canComment() or getState().
Query ==
  /\ driver = "cooldown"
  /\ \E op \in {"canPost", "canComment", "getState"} :
       heartbeatCall' =
         CASE op = "getState" -> Returned(op, TRUE)
           [] ReadThrows(heartbeatState) -> Threw(op)
           [] op = "canPost" -> Returned(op, canPost(heartbeatState, clock))
           [] op = "canComment" -> Returned(op, canComment(heartbeatState, clock))
  /\ UNCHANGED <<heartbeatState, heartbeatStateFile, clock, heartbeatRun,
                 lastPostAt, lastCommentAt, steps>>
  /\ HeartbeatFrame

\* heartbeatManager.recordPost()
recordPostCall ==
  /\ IF WriteThrows(heartbeatState)
       THEN /\ heartbeatCall' = Threw("recordPost")
            /\ UNCHANGED <<heartbeatState, heartbeatStateFile, lastPostAt>>
       ELSE \E outcome \in WriteOutcomes :
              LET state == [heartbeatState EXCEPT !.lastPost = toISOString(clock)]
              IN  /\ heartbeatState' = state
                  /\ saveState(state, outcome)
                  /\ lastPostAt' = Num(clock)
                  /\ heartbeatCall' = Returned("recordPost", TRUE)
  /\ UNCHANGED <<clock, heartbeatRun, lastCommentAt>>

\* recordPost() called on the tracker directly.
recordPost ==
  /\ driver \in {"cooldown", "peers"}
  /\ steps < MaxSteps
  /\ steps' = steps + 1
  /\ recordPostCall
  /\ HeartbeatFrame

\* heartbeatManager.recordComment()
recordCommentCall ==
  /\ IF WriteThrows(heartbeatState)
       THEN /\ heartbeatCall' = Threw("recordComment")
            /\ UNCHANGED <<heartbeatState, heartbeatStateFile, lastCommentAt>>
       ELSE \E outcome \in WriteOutcomes :
              LET state == [heartbeatState EXCEPT !.lastComment = toISOString(clock)]
              IN  /\ heartbeatState' = state
                  /\ saveState(state, outcome)
                  /\ lastCommentAt' = Num(clock)
                  /\ heartbeatCall' = Returned("recordComment", TRUE)
  /\ UNCHANGED <<clock, heartbeatRun, lastPostAt>>

\* recordComment() called on the tracker directly.
recordComment ==
  /\ driver \in {"cooldown", "peers"}
  /\ steps < MaxSteps
  /\ steps' = steps + 1
  /\ recordCommentCall
  /\ HeartbeatFrame

\* this.state.checkCount++
Increment(v) ==
  CASE v.kind = "number" -> Num(v.t + 1)
    [] v.kind = "null" -> Num(1)
    [] OTHER -> NaN

\* Mutant: a successful heartbeat also stamps lastPost with its timestamp.
HeartbeatSuccessStampsPost(state, timestamp) ==
  [state EXCEPT !.lastCheck = timestamp, !.lastPost = timestamp,
                !.checkCount = Increment(@), !.lastResult = "success"]

\* The state a successful heartbeat leaves.
HeartbeatSuccess(state, timestamp) ==
  [state EXCEPT !.lastCheck = timestamp, !.checkCount = Increment(@),
                !.lastResult = "success"]

\* runHeartbeat() up to its first fetch: the timestamp is taken; without an
\* api key the failure result is stored and returned.
runHeartbeat ==
  /\ driver = "cooldown"
  /\ heartbeatRun.pc = "idle"
  /\ steps < MaxSteps
  /\ steps' = steps + 1
  /\ IF getApiKey(identityConfig, Null) # Null
       THEN /\ heartbeatRun' = [pc |-> "fetching", timestamp |-> toISOString(clock)]
            /\ UNCHANGED <<heartbeatState, heartbeatStateFile, heartbeatCall>>
       ELSE /\ UNCHANGED heartbeatRun
            /\ IF WriteThrows(heartbeatState)
                 THEN /\ heartbeatCall' = Threw("runHeartbeat")
                      /\ UNCHANGED <<heartbeatState, heartbeatStateFile>>
                 ELSE \E outcome \in WriteOutcomes :
                        LET state == [heartbeatState EXCEPT !.lastResult = "failure"]
                        IN  /\ heartbeatState' = state
                            /\ saveState(state, outcome)
                            /\ heartbeatCall' = Returned("runHeartbeat", FALSE)
  /\ UNCHANGED <<clock, lastPostAt, lastCommentAt>>
  /\ HeartbeatFrame

\* How a feed request of runHeartbeat() ends.  "new": a 2xx response with a
\* post of the last four hours; "none": a 2xx response without one;
\* "rejected": a response below 500 that is not ok (3xx, 4xx);
\* "unparsable": a 2xx response whose json() throws; "failed": a 5xx at
\* every attempt or a network error, fetchWithRetry throws.
FeedFetches == {"new", "none", "rejected", "unparsable", "failed"}
FeedThrows == {"unparsable", "failed"}

\* The feed requests of one run: the global feed is asked only when the
\* personal feed gave no new post.
HeartbeatFetches ==
  {<<first>> : first \in FeedThrows \cup {"new"}}
  \cup {<<first, second>> : first \in {"none", "rejected"}, second \in FeedFetches}

FetchThrows(fetched) == fetched[Len(fetched)] \in FeedThrows

\* The fetches of runHeartbeat() have settled: the feeds were read, or
\* fetchWithRetry (or json()) threw.
runHeartbeatSettles ==
  /\ driver = "cooldown"
  /\ heartbeatRun.pc = "fetching"
  /\ heartbeatRun' = IdleRun
  /\ \E fetched \in HeartbeatFetches, outcome \in WriteOutcomes :
       IF ~FetchThrows(fetched) /\ ~ReadThrows(heartbeatState)
          /\ ~WriteThrows(heartbeatState)
         THEN LET state == HeartbeatSuccess(heartbeatState, heartbeatRun.timestamp)
              IN  /\ heartbeatState' = state
                  /\ saveState(state, outcome)
                  /\ heartbeatCall' =
                       [Returned("runHeartbeat", TRUE) EXCEPT !.fetched = fetched]
       ELSE IF WriteThrows(heartbeatState)
         THEN /\ outcome = "saved"
              /\ heartbeatCall' =
                   [Threw("runHeartbeat") EXCEPT !.fetched = fetched]
              /\ UNCHANGED <<heartbeatState, heartbeatStateFile>>
       ELSE LET state == [heartbeatState EXCEPT !.lastResult = "failure"]
            IN  /\ heartbeatState' = state
                /\ saveState(state, outcome)
                /\ heartbeatCall' =
                     [Returned("runHeartbeat", FALSE) EXCEPT !.fetched = fetched]
  /\ UNCHANGED <<clock, lastPostAt, lastCommentAt, steps>>
  /\ HeartbeatFrame

\* The time of the post / comment a loaded state records.
RecordedAt(v) == IF v.kind = "iso" THEN Num(v.t) ELSE JsNull

\* A process that has not constructed its tracker, and one whose tracker
\* holds `state`.
NoTracker == [pc |-> "absent", state |-> DefaultState]
Tracker(state) == [pc |-> "running", state |-> state]

\* new HeartbeatManager() over the document `doc`.
HeartbeatConstructor(doc) ==
  /\ heartbeatStateFile = doc
  /\ heartbeatState = loadState(doc)
  /\ lastPostAt = RecordedAt(loadState(doc).lastPost)
  /\ lastCommentAt = RecordedAt(loadState(doc).lastComment)
  /\ clock = StartTime
  /\ heartbeatCall = NoCall
  /\ heartbeatRun = IdleRun
  /\ steps = 0
  /\ peerTracker = NoTracker

IdleHeartbeat == HeartbeatConstructor(Doc("absent", DefaultState))

PeerFrame ==
  UNCHANGED <<heartbeatState, clock, heartbeatCall, heartbeatRun, lastPostAt,
              lastCommentAt, loopVars, identityVars, apiVars, toolVars>>

\* The second process starts: its module-level new HeartbeatManager() loads
\* the document once.
PeerConstructor ==
  /\ driver = "peers"
  /\ peerTracker.pc = "absent"
  /\ peerTracker' = Tracker(loadState(heartbeatStateFile))
  /\ UNCHANGED <<heartbeatStateFile, steps>>
  /\ PeerFrame

\* recordPost() or recordComment() in the second process: the field of its
\* own state is set and saveState() writes that whole state.
PeerRecord(field) ==
  /\ driver = "peers"
  /\ peerTracker.pc = "running"
  /\ ~WriteThrows(peerTracker.state)
  /\ steps < MaxSteps
  /\ steps' = steps + 1
  /\ \E outcome \in WriteOutcomes :
       LET state == IF field = "lastPost"
                      THEN [peerTracker.state EXCEPT !.lastPost = toISOString(clock)]
                      ELSE [peerTracker.state EXCEPT !.lastComment = toISOString(clock)]
       IN  /\ peerTracker' = Tracker(state)
           /\ saveState(state, outcome)
  /\ PeerFrame

\* The tool callers, and a caller with no call made.
Callers == {1, 2}

IdleToolCall == [pc |-> "idle", name |-> Null]

IdleTools ==
  /\ toolCall = [t \in Callers |-> IdleToolCall]
  /\ feedPosts = <<>>

IdlePlatform ==
  /\ identityConfig = IdentitiesConfig(Null, NoIdentities)
  /\ saveLog = <<>>
  /\ apiCall = IdleApiCall
  /\ fetches = 0
  /\ sleeps = <<>>
  /\ IdleHeartbeat
  /\ IdleTools

-----------------------------------------------------------------------------
(* The search fallback in detail: texts are sequences of characters.       *)

MaxPosts == 22

\* String.prototype.toLowerCase on the characters that occur.
toLowerCase(s) ==
  [i \in 1..Len(s) |-> CASE s[i] = "A" -> "a"
                         [] s[i] = "B" -> "b"
                         [] OTHER -> s[i]]

\* String.prototype.trim
RECURSIVE trimStart(_)
trimStart(s) ==
  IF s # <<>> /\ Head(s) = " " THEN trimStart(Tail(s)) ELSE s

RECURSIVE trimEnd(_)
trimEnd(s) ==
  IF s # <<>> /\ s[Len(s)] = " " THEN trimEnd(SubSeq(s, 1, Len(s) - 1)) ELSE s

trimText(s) == trimEnd(trimStart(s))

\* String.prototype.includes
includes(hay, q) ==
  \E i \in 1..(Len(hay) - Len(q) + 1) : SubSeq(hay, i, i + Len(q) - 1) = q

\* Array.prototype.slice(0, end)
slice(seq, end) == SubSeq(seq, 1, IF Len(seq) < end THEN Len(seq) ELSE end)

\* A post of the feed; hasContent = FALSE: the content property is absent.
Post(id, title, hasContent, content) ==
  [id |-> id, title |-> title, hasContent |-> hasContent, content |-> content]

PostTemplates ==
  << Post(0, <<"A", "b">>, FALSE, <<>>),
     Post(0, <<"b">>, TRUE, <<"a">>),
     Post(0, <<"b", " ", "b">>, TRUE, <<>>),
     Post(0, <<"B">>, TRUE, <<"b", "a">>) >>

\* The feeds the platform can hold: n posts, taken from the templates with
\* a stride.
Feed(n, stride) ==
  [i \in 1..n |->
     [PostTemplates[(((i - 1) * stride) % Len(PostTemplates)) + 1]
        EXCEPT !.id = i]]

Feeds == {Feed(n, stride) : n \in 0..MaxPosts, stride \in {1, 2, 4}}

\* The queries a search is made with.
SearchInputs ==
  {[query |-> q] : q \in {<<>>, <<" ">>, <<"A">>, <<" ", "b", " ">>,
                          <<"a", "b">>, <<"z">>}}

extractSearchQuery(input) ==
  IF "query" \in DOMAIN input THEN input.query ELSE <<>>

\* One entry of the fallback's results.
FallbackEntry(p) ==
  [id |-> p.id, type |-> "post", title |-> p.title,
   content |-> IF p.hasContent THEN p.content ELSE <<>>,
   similarity |-> 0, post_id |-> p.id, fallback |-> TRUE]

\* Mutant: only the title of a post is searched.
FallbackMatchesTitleOnly(input, posts) ==
  LET q == toLowerCase(trimText(extractSearchQuery(input)))
      Matches(p) == includes(toLowerCase(p.title), q)
  IN  IF q # <<>> THEN SelectSeq(posts, Matches) ELSE posts

\* The posts of the feed that fallbackSearch keeps for the query.
FallbackMatches(input, posts) ==
  LET q == toLowerCase(trimText(extractSearchQuery(input)))
      Matches(p) ==
        LET hay == toLowerCase(p.title \o <<" ">> \o
                               (IF p.hasContent THEN p.content ELSE <<>>))
        IN  includes(hay, q)
  IN  IF q # <<>> THEN SelectSeq(posts, Matches) ELSE posts

\* Mutant: the matches are not cut to twenty.
FallbackEntriesUncut(input, posts) ==
  LET matches == FallbackMatches(input, posts)
  IN  [i \in 1..Len(matches) |-> FallbackEntry(matches[i])]

\* results of a successful fallbackSearch: matches.slice(0, 20).map(...)
FallbackEntries(input, posts) ==
  LET matches == slice(FallbackMatches(input, posts), 20)
  IN  [i \in 1..Len(matches) |-> FallbackEntry(matches[i])]

\* note of a successful fallbackSearch.
FallbackNote ==
  "search is failing; newest posts matched approximately, results may be incomplete"

\* One executeTool(name, input) of the agent, from call to return, against
\* the feed the platform holds.
executeToolCall(t) ==
  /\ driver = "fallback"
  /\ toolCall[t].pc = "idle"
  /\ \E name \in {"moltbook_search", "moltbook_get_feed"},
        input \in SearchInputs :
       \E outs \in OutcomeSeqs(name, input) :
         LET r == executeTool(name, input, outs)
         IN  toolCall' =
               [toolCall EXCEPT ![t] =
                  [pc |-> "returned", name |-> name, input |-> input,
                   outs |-> outs, result |-> r.result, runs |-> r.runs,
                   results |-> IF r.result.fallback
                                 THEN FallbackEntries(input, feedPosts)
                                 ELSE <<>>,
                   note |-> IF r.result.fallback THEN FallbackNote ELSE Null,
                   query |-> IF r.result.fallback
                               THEN extractSearchQuery(input) ELSE <<>>]]
  /\ UNCHANGED <<feedPosts, loopVars, identityVars, apiVars, heartbeatVars>>

-----------------------------------------------------------------------------
(* The tool handlers of tools.ts that call the platform.                   *)

ToolNames ==
  {"moltbook_get_feed", "moltbook_search", "moltbook_get_profile",
   "moltbook_post", "moltbook_comment", "moltbook_vote"}

\* What a handler returns, without its payload; Null: the property is absent
\* or undefined.  status is debug.status.
ToolResult(success, error, hint, minutes, seconds, remaining, status) ==
  [success |-> success, error |-> error, hint |-> hint,
   retry_after_minutes |-> minutes, retry_after_seconds |-> seconds,
   daily_remaining |-> remaining, status |-> status]

ToolSuccess ==
  ToolResult(TRUE, Null, Null, Undefined, Undefined, Undefined, Undefined)

\* The returns of moltbook_post and moltbook_comment while cooling down.
PostCooldown ==
  ToolResult(FALSE, "post cooldown", "limit: 1 post per 30 minutes",
             Num(30), Undefined, Undefined, Undefined)

CommentCooldown ==
  ToolResult(FALSE, "comment cooldown",
             "limit: 1 comment per 20 seconds, 50 per day",
             Undefined, Num(20), Undefined, Undefined)

\* A number (or undefined) used as a condition.
FalsyNumber(v) == v.kind # "number" \/ v.t = 0

\* Mutant: the handler takes every answer of apiRequest for a success.
SucceededAlways(result) == TRUE

\* if (result.success && result.data): the data of a successful call is an
\* object (the parsed body, or {} when the body does not parse), so truthy.
Succeeded(result) == result.success

\* What each handler returns once its apiRequest call returned `result`.
HandlerReturn(name, result) ==
  IF Succeeded(result) THEN ToolSuccess
  ELSE CASE name = "moltbook_post" ->
              IF result.rateLimit.present
                 /\ ~FalsyNumber(result.rateLimit.retryAfterMinutes)
                THEN ToolResult(FALSE, result.error, result.hint,
                                result.rateLimit.retryAfterMinutes,
                                Undefined, Undefined, Undefined)
                ELSE ToolResult(FALSE, result.error, result.hint,
                                Undefined, Undefined, Undefined, Undefined)
         [] name = "moltbook_comment" ->
              IF result.rateLimit.present
                THEN ToolResult(FALSE, result.error, result.hint, Undefined,
                                result.rateLimit.retryAfterSeconds,
                                result.rateLimit.dailyRemaining, Undefined)
                ELSE ToolResult(FALSE, result.error, result.hint,
                                Undefined, Undefined, Undefined, Undefined)
         [] name = "moltbook_search" ->
              ToolResult(FALSE, result.error, result.hint, Undefined,
                         Undefined, Undefined, Num(result.status))
         [] name = "moltbook_get_feed" ->
              ToolResult(FALSE, result.error, Null, Undefined, Undefined,
                         Undefined, Num(result.status))
         [] OTHER ->
              ToolResult(FALSE, result.error, Null, Undefined, Undefined,
                         Undefined, Undefined)

\* Mutant: moltbook_post does not read the cooldown.
GatedCommentsOnly(name, state, time) ==
  name = "moltbook_comment" /\ ~canComment(state, time)

\* if (!heartbeatManager.canPost()) / canComment(): the handler is gated.
Gated(name, state, time) ==
  \/ name = "moltbook_post" /\ ~canPost(state, time)
  \/ name = "moltbook_comment" /\ ~canComment(state, time)

\* The identity arguments a tool call may carry; Null: none.
ToolIdentities == {Null, "bob"}

NewToolCall(name, identity) ==
  [pc |-> "called", name |-> name, identity |-> identity,
   gated |-> FALSE, api |-> NoApiResponse, result |-> ToolSuccess,
   fetched |-> fetches, startedAt |-> clock, returnedAt |-> 0,
   after |-> {u \in Callers : toolCall[u].pc = "returned"},
   requested |-> identity, keys |-> <<>>]

ToolFrame == UNCHANGED <<feedPosts, loopVars, peerTracker>>

\* A handler starts with validated arguments: moltbook_post and
\* moltbook_comment read the cooldown and return at once while it lasts;
\* every handler then calls apiRequest.
ToolStart(t, name, identity) ==
  /\ driver \in {"tools", "race", "shared"}
  /\ toolCall[t].pc = "idle"
  /\ LET call == NewToolCall(name, identity)
     IN  toolCall' =
           [toolCall EXCEPT ![t] =
              IF Gated(name, heartbeatState, clock)
                THEN [call EXCEPT !.pc = "returned", !.gated = TRUE,
                                  !.result = IF name = "moltbook_post"
                                               THEN PostCooldown
                                               ELSE CommentCooldown]
                ELSE call]
  /\ UNCHANGED <<identityVars, apiVars, heartbeatVars>>
  /\ ToolFrame

\* The handler's apiRequest call runs up to its first fetch; calls take the
\* transport one at a time.
ToolRequest(t) ==
  /\ driver \in {"tools", "search"}
  /\ toolCall[t].pc = "called"
  /\ apiRequestCall(toolCall[t].identity)
  /\ toolCall' = [toolCall EXCEPT ![t].pc = "transport"]
  /\ UNCHANGED heartbeatVars
  /\ ToolFrame

\* The awaited apiRequest returned `result`: moltbook_post and
\* moltbook_comment record the time of a successful write, and the handler
\* returns.
HandlerReturns(t, result) ==
  LET name == toolCall[t].name
  IN  /\ toolCall' = [toolCall EXCEPT ![t].pc = "returned",
                                      ![t].api = result,
                                      ![t].result = HandlerReturn(name, result),
                                      ![t].returnedAt = clock]
      /\ IF Succeeded(result) /\ name = "moltbook_post"
           THEN recordPostCall
         ELSE IF Succeeded(result) /\ name = "moltbook_comment"
           THEN recordCommentCall
         ELSE UNCHANGED <<heartbeatState, heartbeatStateFile, clock,
                          heartbeatCall, heartbeatRun, lastPostAt,
                          lastCommentAt>>

ToolReturn(t) ==
  /\ driver = "tools"
  /\ toolCall[t].pc = "transport"
  /\ apiCall.pc = "returned"
  /\ HandlerReturns(t, apiCall.result)
  /\ apiCall' = IdleApiCall
  /\ UNCHANGED <<identityVars, fetches, sleeps, steps>>
  /\ ToolFrame

\* isSearchFailure on what moltbook_search returned.
SearchHandlerFailed(result) ==
  /\ ~result.success
  /\ \/ IncludesSearchFailed(result.error)
     \/ result.status = Num(500)

\* The identity arguments of a search: none, a stored identity that is not
\* the default, the default with blanks around it, a name not in the store.
SearchIdentities == {Null, "bob", " alice ", "carol"}

\* The agent's executeTool("moltbook_search", {query, identity}) starts.
SearchStart(t, identity) ==
  /\ driver = "search"
  /\ toolCall[t].pc = "idle"
  /\ toolCall' = [toolCall EXCEPT ![t] = NewToolCall("moltbook_search", identity)]
  /\ UNCHANGED <<identityVars, apiVars, heartbeatVars>>
  /\ ToolFrame

\* The awaited apiRequest returned.  After the search handler: a search
\* failure starts fallbackSearch, which calls
\* executeTool("moltbook_get_feed", {sort, limit}); any other result is
\* returned.  After the feed handler: the fallback returns.
SearchReturn(t) ==
  /\ driver = "search"
  /\ toolCall[t].pc = "transport"
  /\ apiCall.pc = "returned"
  /\ LET call == toolCall[t]
         result == HandlerReturn(call.name, apiCall.result)
         keys == IF apiCall.attempt > 0 THEN Append(call.keys, apiCall.apiKey)
                 ELSE call.keys
     IN  toolCall' = [toolCall EXCEPT ![t] =
           IF call.name = "moltbook_search" /\ SearchHandlerFailed(result)
             THEN [call EXCEPT !.pc = "called", !.name = "moltbook_get_feed",
                               !.identity = Null, !.api = apiCall.result,
                               !.keys = keys]
             ELSE [call EXCEPT !.pc = "returned", !.api = apiCall.result,
                               !.result = result, !.keys = keys,
                               !.returnedAt = clock]]
  /\ apiCall' = IdleApiCall
  /\ UNCHANGED <<identityVars, fetches, sleeps, heartbeatVars>>
  /\ ToolFrame

\* Two callers of the write tools at once.  Each handler's apiRequest call
\* is taken as a whole here: it sends its request, and later it returns a
\* success or a failure.
WriteTools == {"moltbook_post", "moltbook_comment"}

WriteResults ==
  {ApiResponse(TRUE, ResponseData(NoBody), Null, Null, 0, 0, NoRateLimit),
   ApiResponse(FALSE, Null, "too many requests", Null, 429, 0,
               [NoRateLimit EXCEPT !.present = TRUE,
                                   !.retryAfterMinutes = Num(30),
                                   !.retryAfterSeconds = Num(20)]),
   ApiResponse(FALSE, Null, "HTTP 500", Null, 500, DEFAULT_MAX_RETRIES,
               NoRateLimit)}

\* The handler's write request leaves.
WriteRequest(t) ==
  /\ driver \in {"race", "shared"}
  /\ toolCall[t].pc = "called"
  /\ toolCall' = [toolCall EXCEPT
       ![t].pc = "transport",
       ![t].keys = Append(@, getApiKey(identityConfig, trim(toolCall[t].identity)))]
  /\ fetches' = fetches + 1
  /\ UNCHANGED <<identityVars, apiCall, sleeps, heartbeatVars>>
  /\ ToolFrame

\* The handler's apiRequest call returns.
WriteReturn(t) ==
  /\ driver \in {"race", "shared"}
  /\ toolCall[t].pc = "transport"
  /\ \E result \in WriteResults : HandlerReturns(t, result)
  /\ UNCHANGED <<identityVars, apiVars, steps>>
  /\ ToolFrame

-----------------------------------------------------------------------------
(* The outward entry points: MCP ListTools / CallTool and callToolDirect.  *)

\* The names of the identity tools, and of identityTools' required fields.
identityTools ==
  {"openecho:identity_list", "openecho:identity_status",
   "openecho:identity_switch", "openecho:identity_add"}

IdentityRequired(toolName) ==
  CASE toolName = "openecho:identity_switch" -> {"name"}
    [] toolName = "openecho:identity_add" -> {"name", "description"}
    [] OTHER -> {}

\* convertToMcpTools(): every registered tool under the openecho: prefix.
convertToMcpTools == {"openecho:" \o t : t \in tools}

\* What ListTools publishes.
ListTools == convertToMcpTools \cup identityTools

\* Names a caller may ask for that are not published.
UnlistedNames ==
  {"moltbook_search", "openecho:nope", "openecho:identity_nope", "nope"}

\* name.startsWith("openecho:identity_")
startsWithIdentity(name) ==
  name \in identityTools \cup {"openecho:identity_nope"}

\* toolName.replace("openecho:", "") on the names that occur.
replacePrefix(toolName) ==
  IF \E t \in tools \cup {"nope"} : toolName = "openecho:" \o t
    THEN CHOOSE t \in tools \cup {"nope"} : toolName = "openecho:" \o t
    ELSE toolName

\* The arguments of a call: absent (undefined) or an object.
Args(present, value) == [present |-> present, value |-> value]

ArgsSent ==
  {Args(FALSE, EmptyObj), Args(TRUE, EmptyObj), Args(TRUE, QueryObj),
   Args(TRUE, [name |-> "alice"]),
   Args(TRUE, [name |-> "bob", description |-> "a bot"])}

\* What an entry point does: it returns an object (success is "true",
\* "false" or "absent") or throws; ran is the capability whose handler ran
\* (Null: none); parsed says whether a schema was applied to the arguments.
Dispatched(kind, success, ran, parsed) ==
  [kind |-> kind, success |-> success, ran |-> ran, parsed |-> parsed]

\* executeIdentityTool(toolName, args); `outcome` is what the platform or
\* the store does for the handler.
executeIdentityTool(toolName, args, cfg, outcome) ==
  CASE toolName = "openecho:identity_list" ->
         Dispatched("object", "true", toolName, FALSE)
    [] toolName \in identityTools \ {"openecho:identity_list"}
         /\ ~args.present ->
         Dispatched("throws", "absent", Null, FALSE)
    [] toolName = "openecho:identity_status" ->
         Dispatched("object", IF outcome = "ok" THEN "true" ELSE "false",
                    toolName, FALSE)
    [] toolName = "openecho:identity_switch" ->
         IF "name" \notin DOMAIN args.value
            \/ args.value.name \notin DOMAIN cfg.identities
           THEN Dispatched("object", "false", toolName, FALSE)
         ELSE IF outcome = "ok"
           THEN Dispatched("object", "true", toolName, FALSE)
           ELSE Dispatched("throws", "absent", toolName, FALSE)
    [] toolName = "openecho:identity_add" ->
         Dispatched("object", IF outcome = "ok" THEN "true" ELSE "false",
                    toolName, FALSE)
    [] OTHER -> Dispatched("object", "false", Null, FALSE)

\* try { tool.parameters.parse(args); tool.handler(...) } catch of both
\* executeMoltbookTool and callToolDirect.
ParseAndRun(actualToolName, args, outcome) ==
  IF ~args.present \/ ~SchemaParse(actualToolName, args.value).ok
    THEN Dispatched("object", "false", Null, TRUE)
  ELSE IF outcome = "throws"
    THEN Dispatched("object", "false", actualToolName, TRUE)
  ELSE Dispatched("object", HandlerResult(actualToolName, outcome).success,
                  actualToolName, TRUE)

executeMoltbookTool(toolName, args, outcome) ==
  LET actualToolName == replacePrefix(toolName)
  IN  IF getTool(actualToolName) = Null
        THEN Dispatched("object", "false", Null, FALSE)
        ELSE ParseAndRun(actualToolName, args, outcome)

\* The CallTool request handler of the MCP server.
CallToolHandler(name, args, cfg, outcome) ==
  IF startsWithIdentity(name)
    THEN executeIdentityTool(name, args, cfg, outcome)
    ELSE executeMoltbookTool(name, args, outcome)

\* callToolDirect(toolName, params) of agent.ts.
callToolDirectResult(toolName, args, outcome) ==
  IF getTool(toolName) = Null
    THEN Dispatched("object", "false", Null, FALSE)
    ELSE ParseAndRun(toolName, args, outcome)

\* The outcomes the handler behind a name can meet.
DispatchOutcomes(name) ==
  IF getTool(replacePrefix(name)) # Null
    THEN HandlerOutcomes(replacePrefix(name))
    ELSE {"ok", "fails"}

NewDispatch(entry, name, args, outcome, result) ==
  [pc |-> "returned", entry |-> entry, name |-> name, args |-> args,
   outcome |-> outcome, result |-> result]

\* An MCP client sends one CallTool request.
CallTool(t) ==
  /\ driver = "dispatch"
  /\ toolCall[t].pc = "idle"
  /\ \E name \in ListTools \cup UnlistedNames, args \in ArgsSent :
       \E outcome \in DispatchOutcomes(name) :
         toolCall' = [toolCall EXCEPT ![t] =
           NewDispatch("mcp", name, args, outcome,
                       CallToolHandler(name, args, identityConfig, outcome))]
  /\ UNCHANGED <<feedPosts, loopVars, identityVars, apiVars, heartbeatVars>>

\* A caller in the process calls callToolDirect.
callToolDirect(t) ==
  /\ driver = "dispatch"
  /\ toolCall[t].pc = "idle"
  /\ \E name \in tools \cup {"openecho:moltbook_search", "nope"},
        args \in ArgsSent :
       \E outcome \in DispatchOutcomes(name) :
         toolCall' = [toolCall EXCEPT ![t] =
           NewDispatch("direct", name, args, outcome,
                       callToolDirectResult(name, args, outcome))]
  /\ UNCHANGED <<feedPosts, loopVars, identityVars, apiVars, heartbeatVars>>

-----------------------------------------------------------------------------
(* The analysis tools of tools.ts over the posts of a feed.                *)

\* A post as the analyses read it.
VotedPost(id, upvotes, downvotes, comment_count) ==
  [id |-> id, upvotes |-> upvotes, downvotes |-> downvotes,
   comment_count |-> comment_count]

VoteTemplates ==
  << VotedPost(0, 10, 0, 5), VotedPost(0, 5, 0, 20), VotedPost(0, 8, 2, 0),
     VotedPost(0, 2, 8, 0), VotedPost(0, 5, 5, 1), VotedPost(0, 0, 0, 0),
     VotedPost(0, 3, 2, 0), VotedPost(0, 2, 3, 0), VotedPost(0, 4, 6, 0),
     VotedPost(0, 40, 1, 2), VotedPost(0, 1, 30, 0), VotedPost(0, 5, 6, 40) >>

\* A batch of n posts: every period-th post is of the template `other`, the
\* rest are of the template `base`.
Batch(n, base, other, period) ==
  [i \in 1..n |->
     [VoteTemplates[IF i % period = 0 THEN other ELSE base] EXCEPT !.id = i]]

Batches ==
  {Batch(n, base, other, period) :
     n \in 0..MaxPosts, base \in 1..Len(VoteTemplates),
     other \in 1..Len(VoteTemplates), period \in {2, 7}}

\* Mutant: a comment weighs as much as a vote.
TrendScoreFlat(post) ==
  post.upvotes - post.downvotes + post.comment_count

\* post.upvotes - post.downvotes + post.comment_count * 2
TrendScore(post) ==
  post.upvotes - post.downvotes + post.comment_count * 2

\* Array.prototype.sort((a, b) => b.score - a.score): stable, by falling score.
InsertByScore(sorted, x) ==
  LET before == {i \in 1..Len(sorted) : sorted[i].score >= x.score}
      k == Cardinality(before)
  IN  SubSeq(sorted, 1, k) \o <<x>> \o SubSeq(sorted, k + 1, Len(sorted))

RECURSIVE SortByScore(_)
SortByScore(seq) ==
  IF seq = <<>> THEN <<>>
  ELSE InsertByScore(SortByScore(SubSeq(seq, 1, Len(seq) - 1)), seq[Len(seq)])

\* hotTopics of analyze_trend.
HotTopics(posts) ==
  slice(SortByScore([i \in 1..Len(posts) |->
                       [score |-> TrendScore(posts[i]),
                        post_id |-> posts[i].id]]),
        10)

\* A ratio num / den of two numbers.
Ratio(num, den) == [num |-> num, den |-> den]

\* ratio > n / d and ratio < n / d, for positive denominators.
RatioAbove(ratio, n, d) == ratio.num * d > n * ratio.den
RatioBelow(ratio, n, d) == ratio.num * d < n * ratio.den

\* Mutant: a ratio of exactly 0.6 counts as positive.
SentimentInclusive(post) ==
  LET total == post.upvotes + post.downvotes
      ratio == IF total > 0 THEN Ratio(post.upvotes, total) ELSE Ratio(1, 2)
  IN  [post_id |-> post.id, ratio |-> ratio,
       sentiment |-> IF ~RatioBelow(ratio, 6, 10) THEN "positive"
                     ELSE IF RatioBelow(ratio, 4, 10) THEN "negative"
                     ELSE "neutral"]

\* One entry of details of analyze_sentiment.
Sentiment(post) ==
  LET total == post.upvotes + post.downvotes
      ratio == IF total > 0 THEN Ratio(post.upvotes, total) ELSE Ratio(1, 2)
  IN  [post_id |-> post.id, ratio |-> ratio,
       sentiment |-> IF RatioAbove(ratio, 6, 10) THEN "positive"
                     ELSE IF RatioBelow(ratio, 4, 10) THEN "negative"
                     ELSE "neutral"]

\* posts.reduce((sum, p) => sum + p.<field>, 0)
RECURSIVE Sum(_, _)
Sum(posts, field) ==
  IF posts = <<>> THEN 0
  ELSE posts[Len(posts)][field] + Sum(SubSeq(posts, 1, Len(posts) - 1), field)

\* value > avg * factor, where avg = sum / n; nothing exceeds NaN (n = 0).
AboveMean(value, sum, n, factor) == n > 0 /\ value * n > sum * factor

\* The reasons analyze_anomaly finds for a post of the batch.
Reasons(post, posts) ==
  LET n == Len(posts)
      total == post.upvotes + post.downvotes
  IN  (IF AboveMean(post.upvotes, Sum(posts, "upvotes"), n, 3)
         THEN {"upvotes"} ELSE {})
      \cup (IF AboveMean(post.downvotes, Sum(posts, "downvotes"), n, 3)
               /\ post.downvotes > 5
              THEN {"downvotes"} ELSE {})
      \cup (IF total > 10 /\ RatioAbove(Ratio(post.downvotes, total), 5, 10)
              THEN {"ratio"} ELSE {})
      \cup (IF AboveMean(post.comment_count, Sum(posts, "comment_count"), n, 4)
              THEN {"comments"} ELSE {})

\* anomalyScore: 2 for each of the vote-count reasons, 1 for the others.
AnomalyScore(reasons) ==
  2 * Cardinality(reasons \cap {"upvotes", "downvotes"})
  + Cardinality(reasons \cap {"ratio", "comments"})

\* unusualPosts of analyze_anomaly: the flagged posts, sorted and cut.
UnusualPosts(posts) ==
  LET Flagged(p) == Reasons(p, posts) # {}
      flagged == SelectSeq(posts, Flagged)
  IN  slice(SortByScore([i \in 1..Len(flagged) |->
                           [post_id |-> flagged[i].id,
                            reasons |-> Reasons(flagged[i], posts),
                            score |-> AnomalyScore(Reasons(flagged[i], posts))]]),
            10)

Analysis(name, success, entries) ==
  [pc |-> "returned", name |-> name, success |-> success, entries |-> entries]

AnalysisFrame ==
  UNCHANGED <<feedPosts, loopVars, identityVars, apiVars, heartbeatVars>>

\* analyze_trend over the feed the platform returns, or its failure.
analyze_trend(t) ==
  /\ driver = "analysis"
  /\ toolCall[t].pc = "idle"
  /\ \E feedOk \in BOOLEAN :
       toolCall' = [toolCall EXCEPT ![t] =
         IF feedOk THEN Analysis("analyze_trend", TRUE, HotTopics(feedPosts))
         ELSE Analysis("analyze_trend", FALSE, <<>>)]
  /\ AnalysisFrame

\* analyze_sentiment without query and post_ids: over the newest posts.
analyze_sentiment(t) ==
  /\ driver = "analysis"
  /\ toolCall[t].pc = "idle"
  /\ \E feedOk \in BOOLEAN :
       LET posts == IF feedOk THEN feedPosts ELSE <<>>
       IN  toolCall' = [toolCall EXCEPT ![t] =
             IF Len(posts) = 0
               THEN Analysis("analyze_sentiment", FALSE, <<>>)
               ELSE Analysis("analyze_sentiment", TRUE,
                             [i \in 1..Len(posts) |-> Sentiment(posts[i])])]
  /\ AnalysisFrame

\* analyze_anomaly over the feed the platform returns, or its failure.
analyze_anomaly(t) ==
  /\ driver = "analysis"
  /\ toolCall[t].pc = "idle"
  /\ \E feedOk \in BOOLEAN :
       toolCall' = [toolCall EXCEPT ![t] =
         IF feedOk THEN Analysis("analyze_anomaly", TRUE, UnusualPosts(feedPosts))
         ELSE Analysis("analyze_anomaly", FALSE, <<>>)]
  /\ AnalysisFrame

-----------------------------------------------------------------------------
(* Specifications.                                                         *)

InitCalls ==
  /\ frame = [c \in Calls |-> IdleFrame]
  /\ events = [c \in Calls |-> <<>>]
  /\ response = [c \in Calls |-> NoResponse]
  /\ requests = [c \in Calls |-> 0]
  /\ handlerRuns = [c \in Calls |-> <<>>]
  /\ rounds = [c \in Calls |-> <<>>]
  /\ isBusyRef = FALSE
  /\ tuiRunning = {}
  /\ builtinPending = FALSE
  /\ IdlePlatform

\* new OpenEchoAgent(cfg[a]) for each agent.
InitAgents(cfg) ==
  /\ config = [a \in Agents |-> Constructor(cfg[a])]
  /\ anthropicClient = [a \in Agents |-> InitAnthropicClient(cfg[a])]
  /\ openaiClient = [a \in Agents |-> InitOpenAIClient(cfg[a])]
  /\ conversationHistory = [a \in Agents |-> <<>>]
  /\ openaiHistory = [a \in Agents |-> <<>>]

AgentConfig(provider, maxTurns) == [provider |-> provider, maxTurns |-> maxTurns]

\* One agent, one awaited call.  With maxTurns given, the model is free; with
\* maxTurns omitted (the default applies) the model is the stub that asks for
\* one invocation in every round.
Init ==
  /\ driver = "single"
  /\ \E p \in Providers \cup {Null}, m \in 0..MaxTurnsBound :
       /\ InitAgents([a \in Agents |-> AgentConfig(p, m)])
       /\ stub = IF m = 0 THEN "stub" ELSE "free"
  /\ InitCalls

Next ==
  \/ CallChat
  \/ \E c \in Calls : ModelStep(c)
  \/ \E c \in Calls : ExecuteToolStep(c)
  \/ \E c \in Calls : AfterToolEnd(c)

Spec == Init /\ [][Next]_vars

\* A Claude agent (1) and an OpenAI agent (2) with the same maxTurns; call 2
\* is given the rounds and handler outcomes that call 1 met.
InitPair ==
  /\ driver = "pair"
  /\ stub = "free"
  /\ \E m \in 1..MaxTurnsBound :
       InitAgents([a \in Agents |->
                     AgentConfig(IF a = 1 THEN "claude" ELSE "openai", m)])
  /\ InitCalls

NextPair ==
  \/ PairChatStream
  \/ \E c \in Calls : ModelStep(c)
  \/ \E c \in Calls : ExecuteToolStep(c)
  \/ \E c \in Calls : AfterToolEnd(c)

SpecPair == InitPair /\ [][NextPair]_vars

\* The TUI: one agent, messages submitted whenever Return is pressed.
InitTui ==
  /\ driver = "tui"
  /\ stub = "free"
  /\ \E p \in Providers, m \in 1..MaxTurnsBound :
       InitAgents([a \in Agents |-> AgentConfig(p, m)])
  /\ InitCalls

NextTui ==
  \/ TuiSubmit
  \/ TuiSubmitReturns
  \/ \E c \in Calls : ModelStep(c)
  \/ \E c \in Calls : ExecuteToolStep(c)
  \/ \E c \in Calls : AfterToolEnd(c)

SpecTui == InitTui /\ [][NextTui]_vars

\* One agent whose chatStream calls are consumed event by event, and may be
\* abandoned by their consumer.
InitStream ==
  /\ driver = "stream"
  /\ stub = "free"
  /\ \E p \in Providers, m \in 1..MaxTurnsBound :
       InitAgents([a \in Agents |-> AgentConfig(p, m)])
  /\ InitCalls

NextStream ==
  \/ ChatStreamCall
  \/ \E c \in Calls : Abandon(c)
  \/ \E c \in Calls : ModelStep(c)
  \/ \E c \in Calls : ExecuteToolStep(c)
  \/ \E c \in Calls : AfterToolEnd(c)

SpecStream == InitStream /\ [][NextStream]_vars

\* The agents with no call made: the state the loop's variables keep while
\* the platform layer is exercised on its own.
IdleLoop ==
  /\ stub = "free"
  /\ InitAgents([a \in Agents |-> AgentConfig(Null, 0)])
  /\ frame = [c \in Calls |-> IdleFrame]
  /\ events = [c \in Calls |-> <<>>]
  /\ response = [c \in Calls |-> NoResponse]
  /\ requests = [c \in Calls |-> 0]
  /\ handlerRuns = [c \in Calls |-> <<>>]
  /\ rounds = [c \in Calls |-> <<>>]
  /\ isBusyRef = FALSE
  /\ tuiRunning = {}
  /\ builtinPending = FALSE

\* One apiRequest call against an identity store and a platform that answer
\* in any of the modelled ways.
InitApi ==
  /\ driver = "api"
  /\ IdleLoop
  /\ identityConfig \in IdentityStores
  /\ saveLog = <<>>
  /\ apiCall = IdleApiCall
  /\ fetches = 0
  /\ sleeps = <<>>
  /\ IdleHeartbeat
  /\ IdleTools

\* One tracker constructed over a document that an earlier run wrote, or
\* that is absent, unreadable or not JSON.
InitCooldown ==
  /\ driver = "cooldown"
  /\ IdleLoop
  /\ identityConfig \in
       {IdentitiesConfig(Null, NoIdentities),
        IdentitiesConfig("alice", [n \in {"alice"} |-> Identity("key-a", 0)])}
  /\ saveLog = <<>>
  /\ apiCall = IdleApiCall
  /\ fetches = 0
  /\ sleeps = <<>>
  /\ \E doc \in WellFormedDocs \cup UnparsableDocs : HeartbeatConstructor(doc)
  /\ IdleTools

NextCooldown ==
  \/ Tick
  \/ Query
  \/ recordPost
  \/ recordComment
  \/ runHeartbeat
  \/ runHeartbeatSettles

SpecCooldown == InitCooldown /\ [][NextCooldown]_vars

\* One tracker constructed over any document: also JSON that is not a state
\* object.
InitCooldownLoad ==
  /\ driver = "cooldown"
  /\ IdleLoop
  /\ identityConfig \in
       {IdentitiesConfig(Null, NoIdentities),
        IdentitiesConfig("alice", [n \in {"alice"} |-> Identity("key-a", 0)])}
  /\ saveLog = <<>>
  /\ apiCall = IdleApiCall
  /\ fetches = 0
  /\ sleeps = <<>>
  /\ \E doc \in WellFormedDocs \cup UnparsableDocs \cup WrongShapeDocs :
       HeartbeatConstructor(doc)
  /\ IdleTools

SpecCooldownLoad == InitCooldownLoad /\ [][NextCooldown]_vars

\* One executeTool call of an agent against any feed.
InitFallback ==
  /\ driver = "fallback"
  /\ IdleLoop
  /\ identityConfig = IdentitiesConfig(Null, NoIdentities)
  /\ saveLog = <<>>
  /\ apiCall = IdleApiCall
  /\ fetches = 0
  /\ sleeps = <<>>
  /\ IdleHeartbeat
  /\ toolCall = [t \in Callers |-> IdleToolCall]
  /\ feedPosts \in Feeds

NextFallback == executeToolCall(1)

SpecFallback == InitFallback /\ [][NextFallback]_vars

\* One tool call on a tracker that an earlier run left, with or without a
\* usable credential.
InitTools ==
  /\ driver = "tools"
  /\ IdleLoop
  /\ identityConfig \in
       {IdentitiesConfig(Null, NoIdentities),
        IdentitiesConfig("alice", [n \in {"alice"} |-> Identity("key-a", 0)])}
  /\ saveLog = <<>>
  /\ apiCall = IdleApiCall
  /\ fetches = 0
  /\ sleeps = <<>>
  /\ \E doc \in WellFormedDocs : HeartbeatConstructor(doc)
  /\ IdleTools

NextTools ==
  \/ \E name \in ToolNames, identity \in ToolIdentities :
       ToolStart(1, name, identity)
  \/ ToolRequest(1)
  \/ apiRequestAttempt
  \/ apiRequestRetry
  \/ ToolReturn(1)

SpecTools == InitTools /\ [][NextTools]_vars

\* One call through an outward entry point, over any identity store.
InitDispatch ==
  /\ driver = "dispatch"
  /\ IdleLoop
  /\ identityConfig \in IdentityStores
  /\ saveLog = <<>>
  /\ apiCall = IdleApiCall
  /\ fetches = 0
  /\ sleeps = <<>>
  /\ IdleHeartbeat
  /\ IdleTools

NextDispatch ==
  \/ CallTool(1)
  \/ callToolDirect(1)

SpecDispatch == InitDispatch /\ [][NextDispatch]_vars

\* One analysis over any batch of posts.
InitAnalysis ==
  /\ driver = "analysis"
  /\ IdleLoop
  /\ identityConfig = IdentitiesConfig(Null, NoIdentities)
  /\ saveLog = <<>>
  /\ apiCall = IdleApiCall
  /\ fetches = 0
  /\ sleeps = <<>>
  /\ IdleHeartbeat
  /\ toolCall = [t \in Callers |-> IdleToolCall]
  /\ feedPosts \in Batches

NextAnalysis ==
  \/ analyze_trend(1)
  \/ analyze_sentiment(1)
  \/ analyze_anomaly(1)

SpecAnalysis == InitAnalysis /\ [][NextAnalysis]_vars

\* Two overlapping callers of moltbook_post and moltbook_comment, with time
\* passing between their steps.
InitRace ==
  /\ driver = "race"
  /\ IdleLoop
  /\ identityConfig =
       IdentitiesConfig("alice", [n \in {"alice"} |-> Identity("key-a", 0)])
  /\ saveLog = <<>>
  /\ apiCall = IdleApiCall
  /\ fetches = 0
  /\ sleeps = <<>>
  /\ \E doc \in WellFormedDocs : HeartbeatConstructor(doc)
  /\ IdleTools

NextRace ==
  \/ \E t \in Callers, name \in WriteTools : ToolStart(t, name, Null)
  \/ \E t \in Callers : WriteRequest(t)
  \/ \E t \in Callers : WriteReturn(t)
  \/ Tick

SpecRace == InitRace /\ [][NextRace]_vars

\* The identities the write tools are called under.
WriterIdentities == {"alice", "bob"}

\* Caller 1 writes under alice, caller 2 under alice or bob, in one
\* process: they share the heartbeatManager singleton, which starts with no
\* post and no comment recorded.
InitShared ==
  /\ driver = "shared"
  /\ IdleLoop
  /\ identityConfig =
       IdentitiesConfig("alice", [n \in WriterIdentities |->
                                    Identity(IF n = "alice" THEN "key-a" ELSE "key-b", 0)])
  /\ saveLog = <<>>
  /\ apiCall = IdleApiCall
  /\ fetches = 0
  /\ sleeps = <<>>
  /\ HeartbeatConstructor(Doc("json", DefaultState))
  /\ IdleTools

NextShared ==
  \/ \E t \in Callers, name \in WriteTools :
       \E identity \in IF t = 1 THEN {"alice"} ELSE WriterIdentities :
         ToolStart(t, name, identity)
  \/ \E t \in Callers : WriteRequest(t)
  \/ \E t \in Callers : WriteReturn(t)
  \/ Tick

SpecShared == InitShared /\ [][NextShared]_vars

\* Two processes (the TUI and the MCP server) whose trackers share the
\* cooldown document, with time passing between their calls.
InitPeers ==
  /\ driver = "peers"
  /\ IdleLoop
  /\ identityConfig =
       IdentitiesConfig("alice", [n \in {"alice"} |-> Identity("key-a", 0)])
  /\ saveLog = <<>>
  /\ apiCall = IdleApiCall
  /\ fetches = 0
  /\ sleeps = <<>>
  /\ \E doc \in WellFormedDocs : HeartbeatConstructor(doc)
  /\ IdleTools

NextPeers ==
  \/ Tick
  \/ recordPost
  \/ recordComment
  \/ PeerConstructor
  \/ \E field \in {"lastPost", "lastComment"} : PeerRecord(field)

SpecPeers == InitPeers /\ [][NextPeers]_vars

\* The names the identity operations are called with.  "constructor" is a
\* property every plain object inherits from Object.prototype.
StoreNames == {"alice", "bob", "constructor"}
ObjectPrototypeKeys == {"constructor"}

\* this.config.identities[name] used as a condition: an own identity, or an
\* inherited property (a function), is truthy.
HasIdentity(cfg, name) ==
  name \in DOMAIN cfg.identities \/ name \in ObjectPrototypeKeys

KeyOf(name) ==
  CASE name = "alice" -> "key-a"
    [] name = "bob" -> "key-b"
    [] OTHER -> "key-c"

\* this.config.identities[name] = identity; if (!this.config.default)
\* this.config.default = name.
AddIdentity(cfg, name, apiKey) ==
  IdentitiesConfig(
    IF Falsy(cfg.default) THEN name ELSE cfg.default,
    [n \in DOMAIN cfg.identities \cup {name} |->
       IF n = name THEN Identity(apiKey, 0) ELSE cfg.identities[n]])

StoreFrame ==
  UNCHANGED <<loopVars, apiVars, heartbeatVars, toolVars>>

\* The replies of the platform to a register or an import request: a 2xx
\* response, a response that is not ok, a failed request.
StoreReplies == {"ok", "rejected", "throws"}

\* identityManager.register(name, description)
register(name) ==
  /\ driver = "store"
  /\ Len(saveLog) < MaxSteps
  /\ \E reply \in StoreReplies, save \in SaveOutcomes :
       IF reply = "ok"
         THEN /\ identityConfig' = AddIdentity(identityConfig, name, KeyOf(name))
              /\ saveLog' = Append(saveLog, save)
         ELSE /\ save = "saved"
              /\ UNCHANGED <<identityConfig, saveLog>>
  /\ StoreFrame

\* identityManager.import(name, apiKey): the identity is stored under the
\* name the platform reports, or under `name` when it reports none.
import(name) ==
  /\ driver = "store"
  /\ Len(saveLog) < MaxSteps
  /\ \E reply \in StoreReplies, save \in SaveOutcomes,
        agentName \in {Null} \cup StoreNames :
       IF reply = "ok"
         THEN /\ identityConfig' =
                   AddIdentity(identityConfig,
                               IF Falsy(agentName) THEN name ELSE agentName,
                               KeyOf(name))
              /\ saveLog' = Append(saveLog, save)
         ELSE /\ save = "saved"
              /\ agentName = Null
              /\ UNCHANGED <<identityConfig, saveLog>>
  /\ StoreFrame

\* identityManager.switch(name)
switch(name) ==
  /\ driver = "store"
  /\ Len(saveLog) < MaxSteps
  /\ \E save \in SaveOutcomes :
       IF HasIdentity(identityConfig, name)
         THEN /\ identityConfig' = [identityConfig EXCEPT !.default = name]
              /\ saveLog' = Append(saveLog, save)
         ELSE /\ save = "saved"
              /\ UNCHANGED <<identityConfig, saveLog>>
  /\ StoreFrame

\* identityManager.remove(name): when the default is removed, the first of
\* the remaining keys becomes the default (any of them here).
remove(name) ==
  /\ driver = "store"
  /\ Len(saveLog) < MaxSteps
  /\ \E save \in SaveOutcomes :
       IF HasIdentity(identityConfig, name)
         THEN LET remaining == DOMAIN identityConfig.identities \ {name}
                  identities == [n \in remaining |-> identityConfig.identities[n]]
              IN  /\ \E first \in IF remaining = {} THEN {Null} ELSE remaining :
                       identityConfig' =
                         IdentitiesConfig(
                           IF identityConfig.default = name THEN first
                           ELSE identityConfig.default,
                           identities)
                  /\ saveLog' = Append(saveLog, save)
         ELSE /\ save = "saved"
              /\ UNCHANGED <<identityConfig, saveLog>>
  /\ StoreFrame

\* The identity operations on a credential store that starts empty.
InitStore ==
  /\ driver = "store"
  /\ IdleLoop
  /\ IdlePlatform

NextStore ==
  \/ \E name \in StoreNames : register(name)
  \/ \E name \in StoreNames : import(name)
  \/ \E name \in StoreNames : switch(name)
  \/ \E name \in StoreNames : remove(name)

SpecStore == InitStore /\ [][NextStore]_vars

\* One search invocation of the agent, with the transport and the identity
\* store (alice, the default, and bob) underneath.
InitSearch ==
  /\ driver = "search"
  /\ IdleLoop
  /\ identityConfig =
       IdentitiesConfig("alice", [n \in {"alice", "bob"} |->
                                    Identity(IF n = "alice" THEN "key-a" ELSE "key-b", 0)])
  /\ saveLog = <<>>
  /\ apiCall = IdleApiCall
  /\ fetches = 0
  /\ sleeps = <<>>
  /\ IdleHeartbeat
  /\ IdleTools

NextSearch ==
  \/ \E identity \in SearchIdentities : SearchStart(1, identity)
  \/ ToolRequest(1)
  \/ apiRequestAttempt
  \/ apiRequestRetry
  \/ SearchReturn(1)

SpecSearch == InitSearch /\ [][NextSearch]_vars

NextApi ==
  \/ \E identityName \in IdentityNames : apiRequest(identityName)
  \/ apiRequestAttempt
  \/ apiRequestRetry

SpecApi == InitApi /\ [][NextApi]_vars

-----------------------------------------------------------------------------
(* Properties of the orchestration loop.                                   *)

Started(c) == frame[c].pc # "idle"
Closed(c) == frame[c].pc = "closed"
Streaming(c) == frame[c].api = "chatStream"
MaxTurns(c) == config[frame[c].agent].maxTurns
History(c) ==
  IF Provider(c) = "claude" THEN conversationHistory[frame[c].agent]
  ELSE openaiHistory[frame[c].agent]
LastOf(seq) == seq[Len(seq)]
Terminal(e) == e.type \in {"done", "error"}

\* The model asked for at least one invocation in every round so far and
\* never reported end of turn.
AsksToolsEveryRound(c) ==
  \A n \in 1..Len(rounds[c]) :
    /\ rounds[c][n].resp.fail = "none"
    /\ rounds[c][n].resp.calls # <<>>
    /\ rounds[c][n].resp.stop # "end_turn"

EndedWithoutError(c) ==
  IF Streaming(c)
    THEN /\ events[c] # <<>>
         /\ LastOf(events[c]).type = "done"
         /\ \A n \in 1..Len(events[c]) : events[c][n].type # "error"
    ELSE response[c].text = LimitNotice

\* C1: a call never issues more than maxTurns inference requests; against a
\* model that asks for an invocation in every round (and never reports end
\* of turn) it ends after exactly maxTurns requests, and not with an error.
C1_RoundTermination ==
  \A c \in Calls :
    Started(c) =>
      /\ requests[c] <= MaxTurns(c)
      /\ Closed(c) /\ AsksToolsEveryRound(c) =>
           requests[c] = MaxTurns(c) /\ EndedWithoutError(c)

\* C1 happens: a streamed call under the default maxTurns ended after a tool
\* request in each of its ten rounds.
C1_Witness ==
  \E c \in Calls :
    /\ Closed(c) /\ Streaming(c) /\ AsksToolsEveryRound(c)
    /\ MaxTurns(c) = DefaultMaxTurns
    /\ requests[c] = DefaultMaxTurns

ToolEvents(evs) ==
  SelectSeq(evs, LAMBDA e : e.type \in {"tool_start", "tool_end"})

TypeAndName(evs) == [n \in 1..Len(evs) |-> <<evs[n].type, evs[n].name>>]

\* tool_start, tool_end for the first `upto` invocations of a round.
RECURSIVE PairsUpTo(_, _)
PairsUpTo(invocations, upto) ==
  IF upto = 0 THEN <<>>
  ELSE PairsUpTo(invocations, upto - 1)
       \o <<<<"tool_start", invocations[upto].name>>,
            <<"tool_end", invocations[upto].name>>>>

\* The tool events round n of call c must have produced by now.
RoundToolEvents(c, n) ==
  LET invocations == rounds[c][n].resp.calls
      f == frame[c]
  IN  IF n < f.turn \/ f.pc = "closed"
        THEN PairsUpTo(invocations, Len(invocations))
      ELSE IF f.pc = "model" THEN <<>>
      ELSE IF f.pc = "tool_start"
        THEN PairsUpTo(invocations, f.i - 1)
             \o <<<<"tool_start", invocations[f.i].name>>>>
      ELSE PairsUpTo(invocations, f.i)

RECURSIVE ExpectedToolEvents(_, _)
ExpectedToolEvents(c, n) ==
  IF n = 0 THEN <<>>
  ELSE ExpectedToolEvents(c, n - 1) \o RoundToolEvents(c, n)

\* Every tool_end directly follows the tool_start of the same invocation and
\* every tool_start that is not the last event is directly followed by a
\* tool_end.
PairsAdjacent(evs) ==
  \A p \in 1..Len(evs) :
    /\ evs[p].type = "tool_end" =>
         p > 1 /\ evs[p - 1].type = "tool_start" /\ evs[p - 1].name = evs[p].name
    /\ evs[p].type = "tool_start" /\ p < Len(evs) => evs[p + 1].type = "tool_end"

\* C2: the tool events of a streamed call are, round by round, one
\* (tool_start, tool_end) pair per invocation the model requested, in the
\* order requested, each tool_end right after its tool_start.
C2_PairsInRequestOrder ==
  \A c \in Calls :
    Started(c) /\ Streaming(c) =>
      /\ TypeAndName(ToolEvents(events[c])) = ExpectedToolEvents(c, Len(rounds[c]))
      /\ PairsAdjacent(events[c])

\* C2 happens: a streamed call on the OpenAI protocol has closed a round of
\* two invocations with different names.
C2_Witness ==
  \E c \in Calls :
    /\ Closed(c) /\ Streaming(c) /\ Provider(c) = "openai"
    /\ \E n \in 1..Len(rounds[c]) :
         /\ Len(rounds[c][n].resp.calls) = 2
         /\ rounds[c][n].resp.calls[1].name # rounds[c][n].resp.calls[2].name

\* Round 1 asks for echo({text: "hi"}), round 2 answers "done".
EchoScenario(c) ==
  /\ Len(rounds[c]) = 2
  /\ rounds[c][1].resp.texts = <<>>
  /\ rounds[c][1].resp.calls = <<Invocation("echo", TextObj, FALSE)>>
  /\ rounds[c][2].resp = Response(<<"done">>, <<>>, "end_turn", "none", "")

TypeNameContent(evs) ==
  [n \in 1..Len(evs) |-> <<evs[n].type, evs[n].name, evs[n].content>>]

\* C3: the events of a streamed call are text events and adjacent
\* (tool_start, tool_end) pairs, closed by exactly one terminal event (done
\* or error) that is the last event; the echo scenario yields tool_start,
\* tool_end, text "done", done.
C3_EventSequenceShape ==
  \A c \in Calls :
    Started(c) /\ Streaming(c) =>
      /\ \A p \in 1..Len(events[c]) :
           /\ events[c][p].type \in {"text", "tool_start", "tool_end", "done", "error"}
           /\ Terminal(events[c][p]) => p = Len(events[c])
      /\ Closed(c) <=> (events[c] # <<>> /\ Terminal(LastOf(events[c])))
      /\ PairsAdjacent(events[c])
      /\ Closed(c) /\ EchoScenario(c) =>
           TypeNameContent(events[c]) =
             <<<<"tool_start", "echo", "">>, <<"tool_end", "echo", "">>,
               <<"text", "", "done">>, <<"done", "", "">>>>

\* C3 happens: the echo scenario has run to its end.
C3_Witness ==
  \E c \in Calls : Closed(c) /\ Streaming(c) /\ EchoScenario(c)

\* Positions <<message, n>> of the result records of a history.
ResultPositions(h) ==
  UNION {{<<q, m>> : m \in 1..Len(h[q].results)} : q \in 1..Len(h)}

ResultId(r) ==
  IF "tool_use_id" \in DOMAIN r THEN r.tool_use_id ELSE r.tool_call_id

InvocationPositions(h) ==
  UNION {{<<p, n>> : n \in 1..Len(h[p].calls)} : p \in 1..Len(h)}

\* Every invocation record has exactly one result record with its id, in a
\* later message, and every result record answers an invocation record.
Paired(h) ==
  /\ \A pos \in InvocationPositions(h) :
       LET id == h[pos[1]].calls[pos[2]].id
           answers == {rp \in ResultPositions(h) :
                         ResultId(h[rp[1]].results[rp[2]]) = id}
       IN  /\ Cardinality(answers) = 1
           /\ \A rp \in answers : rp[1] > pos[1]
  /\ Cardinality(ResultPositions(h)) = Cardinality(InvocationPositions(h))

RoundOpen(c) == frame[c].pc \in {"tool_start", "tool_end"}

\* C4: whenever no round of the call is open, each invocation record in the
\* conversation has exactly one result record with the same id after the
\* assistant turn that requested it; each invocation was executed once.
C4_InvocationsPaired ==
  \A c \in Calls :
    Started(c) /\ ~RoundOpen(c) =>
      /\ Paired(History(c))
      /\ Len(frame[c].toolCalls) = Cardinality(InvocationPositions(History(c)))
      /\ \A x, y \in 1..Len(handlerRuns[c]) :
           x # y /\ handlerRuns[c][x].id # NoId =>
             handlerRuns[c][x].id # handlerRuns[c][y].id

\* C4 happens: a round of two invocations is closed and the call went on.
C4_Witness ==
  \E c \in Calls :
    /\ Started(c) /\ ~RoundOpen(c) /\ Provider(c) = "openai"
    /\ frame[c].turn = 2
    /\ Len(rounds[c][1].resp.calls) = 2
    /\ Len(handlerRuns[c]) > 0

\* The call ended right after a round in which the model asked for tools.
EndedAfterToolRound(c) ==
  /\ Closed(c)
  /\ rounds[c] # <<>>
  /\ LastOf(rounds[c]).resp.fail = "none"
  /\ LastOf(rounds[c]).resp.calls # <<>>

\* C5: a call that ends after a tool round ends only because the round
\* counter has reached maxTurns.
C5_LoopsBackAfterToolRound ==
  \A c \in Calls : EndedAfterToolRound(c) => frame[c].turn = MaxTurns(c)

\* C6: given the same rounds and the same handler outcomes, the call on the
\* Claude agent and the call on the OpenAI agent yield the same events and
\* issue the same number of inference requests.
C6_SameObservableBehaviour ==
  Closed(1) /\ Closed(2) =>
    /\ events[1] = events[2]
    /\ requests[1] = requests[2]

\* C7: at most one chat / chatStream call of an agent is in progress.
C7_OneCallAtATime ==
  \A a \in Agents :
    Cardinality({c \in Calls : InProgress(c) /\ frame[c].agent = a}) <= 1

\* The call ended in a round whose request or stream raised an exception.
EndedByException(c) ==
  /\ Closed(c)
  /\ rounds[c] # <<>>
  /\ LastOf(rounds[c]).resp.fail # "none"

\* The text fragments of a round that the protocol's loop yields.
YieldedTexts(c, resp) ==
  IF Provider(c) = "claude" THEN resp.texts ELSE SelectSeq(resp.texts, Truthy)

ErrorTexts ==
  {"error: API key invalid or not configured"}
  \cup {"error talking to the model: " \o r.error : r \in FailedRounds}

\* C8: a call whose round raised an exception ends with exactly one error
\* event, which is the last event and carries the exception's message; the
\* text events yielded before it are still there and no done event exists.
\* chat() returns an error response.
C8_ExceptionEndsWithError ==
  \A c \in Calls :
    EndedByException(c) =>
      LET r == LastOf(rounds[c]).resp
          texts == YieldedTexts(c, r)
          evs == events[c]
      IN  IF Streaming(c)
            THEN /\ Len(evs) >= Len(texts) + 1
                 /\ LastOf(evs) = ErrorEvent(r.error)
                 /\ \A n \in 1..Len(texts) :
                      evs[Len(evs) - Len(texts) - 1 + n] = TextEvent(texts[n])
                 /\ \A n \in 1..Len(evs) : evs[n].type # "done"
                 /\ Cardinality({n \in 1..Len(evs) : evs[n].type = "error"}) = 1
            ELSE /\ response[c].text \in ErrorTexts
                 /\ ~response[c].needsContinue

\* C8 happens: the stream of the second round broke after a text fragment
\* had been yielded.
C8_Witness ==
  \E c \in Calls :
    /\ EndedByException(c) /\ Streaming(c)
    /\ frame[c].turn = 2
    /\ LastOf(rounds[c]).resp.fail = "stream"
    /\ LastOf(rounds[c]).resp.texts # <<>>

\* C9: an invocation whose argument text is not valid JSON never reaches a
\* handler and gets a failure result.
C9_MalformedArgumentsFail ==
  \A c \in Calls :
    Started(c) /\ Provider(c) = "openai" =>
      LET h == openaiHistory[frame[c].agent]
      IN  \A pos \in InvocationPositions(h) :
            LET tc == h[pos[1]].calls[pos[2]]
            IN  ~JSONparse(tc.arguments).ok =>
                  /\ \A x \in 1..Len(handlerRuns[c]) : handlerRuns[c][x].id # tc.id
                  /\ \A rp \in ResultPositions(h) :
                       ResultId(h[rp[1]].results[rp[2]]) = tc.id =>
                         h[rp[1]].results[rp[2]].content.success # "true"

\* The outputs recorded for the invocations of the call's latest round.
LastRoundOutputs(c) ==
  LET n == Len(LastOf(rounds[c]).resp.calls)
      tcs == frame[c].toolCalls
  IN  {tcs[x].output : x \in (Len(tcs) - n + 1)..Len(tcs)}

Failed(result) == result.success # "true"

\* The result contents recorded in a history.
RecordedResults(h) ==
  {h[rp[1]].results[rp[2]].content : rp \in ResultPositions(h)}

\* C10: a failed invocation yields tool_end with its failure result, the
\* result is appended to the conversation, no error event follows from it,
\* and after its round the loop goes on to another inference request unless
\* the round counter has reached maxTurns.
C10_FailureNeverEndsCall ==
  \A c \in Calls :
    Started(c) =>
      /\ frame[c].pc = "tool_end" /\ Streaming(c) =>
           LastOf(events[c]) = ToolEndEvent(CurrentInvocation(c).name, frame[c].result)
      /\ ~RoundOpen(c) =>
           \A x \in 1..Len(frame[c].toolCalls) :
             frame[c].toolCalls[x].output \in RecordedResults(History(c))
      /\ EndedAfterToolRound(c) /\ (\E o \in LastRoundOutputs(c) : Failed(o)) =>
           /\ Streaming(c) => LastOf(events[c]).type = "done"
           /\ frame[c].turn = MaxTurns(c)

\* The call left the loop because the round counter reached maxTurns.
EndedByTurnLimit(c) ==
  /\ EndedAfterToolRound(c)
  /\ frame[c].turn = MaxTurns(c)
  /\ ~(Provider(c) = "claude" /\ EndsAfterToolRound(LastOf(rounds[c]).resp.stop))

\* What a call that completes normally with this tool-call record hands to
\* its caller last: the done event / the response without needsContinue.
NormalDone(c) == DoneEvent(frame[c].toolCalls, Len(frame[c].toolCalls) > 0)

\* C11: a call ended by the turn limit hands its caller a notice that a
\* normal completion does not carry, and no error: chat returns the limit
\* text with needsContinue, chatStream ends with a done event that differs
\* from the done event of a normal completion.
C11_TurnLimitNotice ==
  \A c \in Calls :
    EndedByTurnLimit(c) =>
      IF Streaming(c)
        THEN /\ \A n \in 1..Len(events[c]) : events[c][n].type # "error"
             /\ LastOf(events[c]).type = "done"
             /\ LastOf(events[c]) # NormalDone(c)
        ELSE /\ response[c].text = LimitNotice
             /\ response[c].needsContinue
             /\ response[c].text \notin ErrorTexts

-----------------------------------------------------------------------------
(* Properties of the transport.                                            *)

ApiStarted == apiCall.pc # "idle"
ApiReturned == apiCall.pc = "returned"
Received == apiCall.responses

C13_AcceptedWriteNotResent ==
  \A n \in 1..Len(Received) :
    ok(Received[n]) =>
      /\ fetches = n
      /\ ApiReturned
      /\ apiCall.result.success
      /\ apiCall.result.data = ResponseData(Received[n].body)

\* No credential resolves for the requested identity, or for the default
\* identity when none is requested.
NoCredentialFor(cfg, identityName) ==
  LET requested == IF Falsy(identityName) THEN "" ELSE trim(identityName)
      name == IF requested # "" THEN requested ELSE cfg.default
  IN  \/ Falsy(name)
      \/ name \notin DOMAIN cfg.identities
      \/ Falsy(cfg.identities[name].api_key)

\* C14: without a resolvable credential the call has returned the
\* no-credential failure with its hint, has issued no HTTP request, has
\* waited for no backoff and has not touched the identity store.
C14_NoCredentialFailsAtOnce ==
  ApiStarted /\ NoCredentialFor(identityConfig, apiCall.identityName) =>
    /\ ApiReturned
    /\ ~apiCall.result.success
    /\ ~Falsy(apiCall.result.hint)
    /\ apiCall.result = NoCredential
    /\ fetches = 0
    /\ sleeps = <<>>
    /\ saveLog = <<>>
    /\ \A n \in DOMAIN identityConfig.identities :
         identityConfig.identities[n].last_active = 0

\* C14 happens: an identity that is not in the store was requested while a
\* default identity with a key exists.
C14_Witness ==
  /\ ApiReturned
  /\ apiCall.identityName = "bob"
  /\ getApiKey(identityConfig, Null) # Null
  /\ apiCall.result = NoCredential

ClientError(res) ==
  res # NetworkError /\ res.status >= 400 /\ res.status < 500 /\ res.status # 429

\* C15: an attempt that receives a 4xx status other than 429 is the last
\* attempt: the call has returned a failure with that status and the
\* server's error and hint.
C15_ClientErrorIsTerminal ==
  \A n \in 1..Len(Received) :
    ClientError(Received[n]) =>
      LET data == ResponseData(Received[n].body)
      IN  /\ n = Len(Received)
          /\ fetches = n
          /\ ApiReturned
          /\ ~apiCall.result.success
          /\ apiCall.result.status = Received[n].status
          /\ apiCall.result.retries = n
          /\ ~Falsy(data.error) => apiCall.result.error = data.error
          /\ apiCall.result.hint = data.hint
          /\ Len(sleeps) = n - 1

\* C15 happens: the second attempt, made after a server error, received 404
\* with one attempt left.
C15_Witness ==
  /\ ApiReturned
  /\ Len(Received) = 2
  /\ Received[1].status = 503
  /\ Received[2].status = 404

-----------------------------------------------------------------------------
(* Properties of the cooldown tracker.                                     *)

\* Time elapsed at `time` since the recorded time `at` is at least `ms`, or
\* nothing was recorded.
NoneOrElapsed(at, time, ms) == at = JsNull \/ time - at.t >= ms

\* C16: canPost() is true iff no post was recorded or at least 30 minutes
\* have passed since the latest one, canComment() likewise with 20 seconds;
\* right after recordPost() / recordComment() the answer is false.
C16_CooldownThresholds ==
  /\ ~heartbeatCall.threw
  /\ heartbeatCall.op = "canPost" =>
       (heartbeatCall.value <=>
          NoneOrElapsed(lastPostAt, heartbeatCall.time, 30 * 60 * 1000))
  /\ heartbeatCall.op = "canComment" =>
       (heartbeatCall.value <=>
          NoneOrElapsed(lastCommentAt, heartbeatCall.time, 20 * 1000))
  /\ heartbeatCall.op = "recordPost" /\ heartbeatCall.time = clock =>
       ~canPost(heartbeatState, clock)
  /\ heartbeatCall.op = "recordComment" /\ heartbeatCall.time = clock =>
       ~canComment(heartbeatState, clock)

\* C16 happens: canPost() answered true exactly 30 minutes after a post
\* recorded in this run.
C16_Witness ==
  /\ heartbeatCall.op = "canPost"
  /\ heartbeatCall.value
  /\ lastPostAt # JsNull
  /\ lastPostAt.t >= StartTime
  /\ heartbeatCall.time - lastPostAt.t = 30 * 60 * 1000

\* The time a lastPost / lastComment value stands for (0: none recorded).
TimeOf(v) == IF v.kind = "iso" THEN v.t ELSE 0

\* C17: no step decreases lastPost or lastComment, and only recordPost()
\* changes lastPost and only recordComment() changes lastComment.
C17_TimestampsMonotonic ==
  [][/\ TimeOf(heartbeatState'.lastPost) >= TimeOf(heartbeatState.lastPost)
     /\ TimeOf(heartbeatState'.lastComment) >= TimeOf(heartbeatState.lastComment)
     /\ heartbeatState'.lastPost # heartbeatState.lastPost =>
          heartbeatCall'.op = "recordPost"
     /\ heartbeatState'.lastComment # heartbeatState.lastComment =>
          heartbeatCall'.op = "recordComment"]_vars

\* C17 happens: in this run a post was recorded after the clock advanced, a
\* comment was recorded and a heartbeat succeeded.
C17_Witness ==
  /\ TimeOf(heartbeatState.lastPost) > StartTime
  /\ TimeOf(heartbeatState.lastComment) >= StartTime
  /\ TimeOf(heartbeatState.lastCheck) >= StartTime
  /\ heartbeatState.lastResult = "success"

\* C18: a tracker constructed over a document that is absent, unreadable or
\* not a well-formed state object starts in the default state, and no call
\* on a tracker throws.
C18_MalformedDocumentDefaults ==
  /\ steps = 0 /\ heartbeatRun = IdleRun /\ heartbeatStateFile \notin WellFormedDocs =>
       heartbeatState = DefaultState
  /\ ~heartbeatCall.threw

-----------------------------------------------------------------------------
(* Properties of the search fallback.                                      *)

\* The handler outcomes met by the invocation whose tool_end was just
\* yielded (<<>>: no handler ran).
OutcomesMet(c) == LastOf(rounds[c][frame[c].turn].outs)

\* What the search handler itself returned for that invocation.
RawSearchResult(c) == HandlerResult("moltbook_search", Head(OutcomesMet(c)))

\* The search handler ran for that invocation and returned.
SearchReturned(c) ==
  /\ frame[c].pc = "tool_end"
  /\ CurrentInvocation(c).name = "moltbook_search"
  /\ OutcomesMet(c) # <<>>
  /\ Head(OutcomesMet(c)) # "throws"

\* A failure whose diagnostic status is an HTTP 5xx.
ServerSideFailure(result) ==
  result.success = "false" /\ result.status >= 500 /\ result.status <= 599

\* The results fallbackSearch can return.
FallbackResults ==
  {FallbackResult(executeTool("moltbook_get_feed",
                              [sort |-> "new", limit |-> 100], <<o>>).result)
     : o \in HandlerOutcomes("moltbook_get_feed")}

\* fallbackSearch ran for the invocation whose tool_end was just yielded.
FallbackInvoked(c) ==
  /\ frame[c].pc = "tool_end"
  /\ Len(OutcomesMet(c)) > 1 \/ frame[c].result \in FallbackResults

\* C19: whenever the search handler returns a failure with an HTTP 5xx
\* status, the result of the invocation is the fallback's result.
C19_ServerFailureFallsBack ==
  \A c \in Calls :
    SearchReturned(c) /\ ServerSideFailure(RawSearchResult(c)) =>
      frame[c].result \in FallbackResults

\* C20: the fallback runs only for the search capability and only when its
\* handler returned a failure with a server-side (5xx) status.
C20_FallbackOnlyOnServerFault ==
  \A c \in Calls :
    FallbackInvoked(c) =>
      /\ SearchReturned(c)
      /\ ServerSideFailure(RawSearchResult(c))

\* The fallback ran in tool call t.
FallbackRan(t) ==
  /\ toolCall[t].pc = "returned"
  /\ toolCall[t].name = "moltbook_search"
  /\ Len(toolCall[t].outs) > 1

\* C21: a successful fallback result holds at most 20 entries, each tagged
\* fallback; one fallback runs the feed handler exactly once and runs
\* neither the search handler nor the fallback again, whatever the feed does.
C21_FallbackOneLevel ==
  \A t \in Callers :
    FallbackRan(t) =>
      LET call == toolCall[t]
      IN  /\ call.result.success = "true" =>
               /\ Len(call.results) <= 20
               /\ \A i \in 1..Len(call.results) : call.results[i].fallback
          /\ Len(call.runs) = 2
          /\ call.runs[1].name = "moltbook_search"
          /\ call.runs[2].name = "moltbook_get_feed"
          /\ call.result \in FallbackResults

\* More than twenty posts of the feed matched and the fallback returned.
C21_Witness ==
  \E t \in Callers :
    /\ FallbackRan(t)
    /\ toolCall[t].result.success = "true"
    /\ Len(FallbackMatches(toolCall[t].input, feedPosts)) > 20
    /\ Len(toolCall[t].results) = 20

-----------------------------------------------------------------------------
(* Properties of the tool handlers.                                        *)

ToolReturned(t) == toolCall[t].pc = "returned"

\* Tool call t failed on the local cooldown or on a 429 of the platform.
RateLimited(t) ==
  /\ ToolReturned(t)
  /\ \/ toolCall[t].gated
     \/ ~toolCall[t].api.success /\ toolCall[t].api.status = 429

\* The result names a wait: a hint text or a retry-after value.
CarriesWaitHint(result) ==
  \/ ~Falsy(result.hint)
  \/ result.retry_after_minutes.kind = "number"
  \/ result.retry_after_seconds.kind = "number"

\* C22: every result of a tool call that failed on the cooldown or on a 429
\* is a failure that carries a hint text or a retry-after value.
C22_RateLimitCarriesWaitHint ==
  \A t \in Callers :
    RateLimited(t) =>
      /\ ~toolCall[t].result.success
      /\ CarriesWaitHint(toolCall[t].result)

\* Tool call t failed because no api key resolved.
MissingCredential(t) ==
  /\ ToolReturned(t)
  /\ toolCall[t].api = NoCredential

\* C23: every result of a tool call that failed for want of a credential is
\* a failure that carries a hint.
C23_MissingCredentialCarriesHint ==
  \A t \in Callers :
    MissingCredential(t) =>
      /\ ~toolCall[t].result.success
      /\ ~Falsy(toolCall[t].result.hint)

\* The arguments satisfy the input schema of the capability `ran` (absent
\* arguments count as valid where the schema requires no field).
ValidFor(ran, args) ==
  IF ran \in identityTools
    THEN IdentityRequired(ran) \subseteq
           (IF args.present THEN DOMAIN args.value ELSE {})
    ELSE args.present /\ SchemaParse(ran, args.value).ok

\* The capability a published name stands for.
CapabilityOf(name) == IF name \in identityTools THEN name ELSE replacePrefix(name)

\* The call returned an object with a boolean success field.
ReturnsObject(t) ==
  /\ toolCall[t].result.kind = "object"
  /\ toolCall[t].result.success \in {"true", "false"}

\* A handler ran only on arguments that satisfy its schema.
RunsOnlyValidated(t) ==
  toolCall[t].result.ran # Null =>
    ValidFor(toolCall[t].result.ran, toolCall[t].args)

\* A published name ran no capability but its own.
RunsItsCapability(t) ==
  toolCall[t].name \in ListTools /\ toolCall[t].result.ran # Null =>
    toolCall[t].result.ran = CapabilityOf(toolCall[t].name)

\* C24: every call through CallTool or callToolDirect, whatever the name and
\* the arguments, returns an object with a boolean success; a handler runs
\* only on arguments that satisfy its schema; and a published name runs no
\* capability but its own.
C24_EntryPointContract ==
  \A t \in Callers :
    ToolReturned(t) =>
      ReturnsObject(t) /\ RunsOnlyValidated(t) /\ RunsItsCapability(t)

-----------------------------------------------------------------------------
(* Properties of the analysis tools.                                       *)

AnalysisDone(t, name) ==
  /\ ToolReturned(t)
  /\ toolCall[t].name = name
  /\ toolCall[t].success

\* The post of the batch with the given id.
PostOf(id) == feedPosts[id]

\* upvotes - downvotes + 2 * comment_count
ClaimedScore(post) == post.upvotes - post.downvotes + 2 * post.comment_count

\* C25: the hot topics are the ten best-scored posts of the feed (all of
\* them when there are fewer), each with the score upvotes - downvotes +
\* 2 * comment_count, in non-increasing order of score.
C25_TrendTopTen ==
  \A t \in Callers :
    AnalysisDone(t, "analyze_trend") =>
      LET top == toolCall[t].entries
          ids == {top[i].post_id : i \in 1..Len(top)}
      IN  /\ Len(top) = IF Len(feedPosts) < 10 THEN Len(feedPosts) ELSE 10
          /\ Cardinality(ids) = Len(top)
          /\ \A i \in 1..Len(top) :
               /\ top[i].post_id \in 1..Len(feedPosts)
               /\ top[i].score = ClaimedScore(PostOf(top[i].post_id))
          /\ \A i \in 1..(Len(top) - 1) : top[i].score >= top[i + 1].score
          /\ \A i \in 1..Len(top), j \in 1..Len(feedPosts) :
               j \notin ids => ClaimedScore(PostOf(j)) <= top[i].score

\* The feed holds {up:10, down:0, comments:5} then {up:5, down:0,
\* comments:20}: the scores are 45 and 20 and the second post comes first.
C25_Witness ==
  \E t \in Callers :
    /\ AnalysisDone(t, "analyze_trend")
    /\ feedPosts = <<VotedPost(1, 10, 0, 5), VotedPost(2, 5, 0, 20)>>
    /\ toolCall[t].entries = <<[score |-> 45, post_id |-> 2],
                               [score |-> 20, post_id |-> 1]>>

\* C26: each item's ratio is upvotes / (upvotes + downvotes), one half when
\* it has no votes; the item is positive iff the ratio is above 0.6,
\* negative iff it is below 0.4, neutral otherwise.
C26_SentimentThresholds ==
  \A t \in Callers :
    AnalysisDone(t, "analyze_sentiment") =>
      LET details == toolCall[t].entries
      IN  /\ Len(details) = Len(feedPosts)
          /\ \A i \in 1..Len(details) :
               LET up == feedPosts[i].upvotes
                   down == feedPosts[i].downvotes
                   d == details[i]
               IN  /\ d.post_id = feedPosts[i].id
                   /\ IF up + down = 0
                        THEN d.ratio.num * 2 = d.ratio.den
                        ELSE d.ratio.num * (up + down) = up * d.ratio.den
                   /\ d.ratio.den > 0
                   /\ d.sentiment = "positive" <=> 5 * d.ratio.num > 3 * d.ratio.den
                   /\ d.sentiment = "negative" <=> 5 * d.ratio.num < 2 * d.ratio.den
                   /\ d.sentiment \in {"positive", "negative", "neutral"}

\* Votes of 8/2, 2/8, 3/2 (ratio 0.6) and 2/3 (ratio 0.4) were classified.
SentimentOf(t, up, down) ==
  {toolCall[t].entries[i].sentiment :
     i \in {j \in 1..Len(feedPosts) : /\ feedPosts[j].upvotes = up
                                      /\ feedPosts[j].downvotes = down}}

C26_Witness ==
  \E t \in Callers :
    /\ AnalysisDone(t, "analyze_sentiment")
    /\ SentimentOf(t, 8, 2) = {"positive"}
    /\ SentimentOf(t, 3, 2) = {"neutral"}

\* The conditions for flagging a post, as stated: against the means of the
\* batch, with a floor of 5 downvotes and at least 10 votes for the ratio.
ClaimedReasons(post) ==
  LET n == Len(feedPosts)
      total == post.upvotes + post.downvotes
  IN  (IF post.upvotes * n > 3 * Sum(feedPosts, "upvotes")
         THEN {"upvotes"} ELSE {})
      \cup (IF post.downvotes * n > 3 * Sum(feedPosts, "downvotes")
               /\ post.downvotes > 5
              THEN {"downvotes"} ELSE {})
      \cup (IF total >= 10 /\ 2 * post.downvotes > total
              THEN {"ratio"} ELSE {})
      \cup (IF post.comment_count * n > 4 * Sum(feedPosts, "comment_count")
              THEN {"comments"} ELSE {})

ClaimedFlagged ==
  {i \in 1..Len(feedPosts) : ClaimedReasons(feedPosts[i]) # {}}

\* C27: a post is flagged iff one of the four conditions holds against the
\* means of the batch (the downvote ratio counting from 10 votes on); its
\* severity is the sum of the weights of the conditions that hold, and the
\* flagged posts (the ten most severe when there are more) are returned in
\* non-increasing order of severity.
C27_AnomalyFlags ==
  \A t \in Callers :
    AnalysisDone(t, "analyze_anomaly") =>
      LET unusual == toolCall[t].entries
          ids == {unusual[i].post_id : i \in 1..Len(unusual)}
      IN  /\ ids \subseteq ClaimedFlagged
          /\ Len(unusual) = IF Cardinality(ClaimedFlagged) < 10
                              THEN Cardinality(ClaimedFlagged) ELSE 10
          /\ \A i \in 1..Len(unusual) :
               unusual[i].score =
                 AnomalyScore(ClaimedReasons(PostOf(unusual[i].post_id)))
          /\ \A i \in 1..(Len(unusual) - 1) :
               unusual[i].score >= unusual[i + 1].score

-----------------------------------------------------------------------------
(* Order of the handlers of a round.                                       *)

IsToolEnd(ev) == ev.type = "tool_end"
IsToolStart(ev) == ev.type = "tool_start"

\* The results of the last n tool_end events of a stream.
LastResults(evs, n) ==
  LET ends == SelectSeq(evs, IsToolEnd)
  IN  IF Len(ends) < n THEN <<>>
      ELSE [j \in 1..n |-> ends[Len(ends) - n + j].result]

\* The results the history ends with: the tool_result blocks of its last
\* message (Claude protocol), its last n tool messages (OpenAI protocol).
HistoryResults(provider, claudeHistory, history, n) ==
  IF provider = "claude"
    THEN IF claudeHistory = <<>> THEN <<>>
         ELSE LET last == claudeHistory[Len(claudeHistory)]
              IN  [j \in 1..Len(last.results) |-> last.results[j].content]
    ELSE IF Len(history) < n
              \/ \E j \in 1..n : history[Len(history) - n + j].role # "tool"
           THEN <<>>
           ELSE [j \in 1..n |-> history[Len(history) - n + j].results[1].content]

\* A handler of call c starts in this step.
HandlerStarts(c) == handlerRuns'[c] # handlerRuns[c]

\* Call c issues an inference request after a round of invocations.
NextRequest(c) == requests'[c] > requests[c] /\ frame[c].pc = "tool_end"

\* C28: in a streamed call, when the handler of an invocation starts, it is
\* the handler of the next invocation in the order the model asked for, and
\* every earlier invocation has returned and its tool_end has been
\* yielded; when the next inference request is issued, the history ends
\* with the results of all invocations of the round, in their order.
C28_HandlersOneAtATime ==
  [][\A c \in Calls :
       frame[c].api = "chatStream" =>
         /\ HandlerStarts(c) =>
              LET started == SelectSeq(events[c], IsToolStart)
                  ended == SelectSeq(events[c], IsToolEnd)
                  new == handlerRuns'[c][Len(handlerRuns[c]) + 1]
              IN  /\ Len(ended) = Len(frame[c].toolCalls)
                  /\ Len(started) = Len(ended) + 1
                  /\ frame[c].i = Len(rounds[c][frame[c].turn].outs) + 1
                  /\ new.name = CurrentInvocation(c).name
                  /\ new.name = started[Len(started)].name
                  /\ Len(SelectSeq(events'[c], IsToolEnd)) \in
                       {Len(ended), Len(ended) + 1}
         /\ NextRequest(c) =>
              LET n == InvocationCount(c)
                  a == frame[c].agent
              IN  /\ Len(rounds[c][frame[c].turn].outs) = n
                  /\ HistoryResults(Provider(c), conversationHistory'[a],
                                    openaiHistory'[a], n)
                       = LastResults(events[c], n)
    ]_vars

\* A streamed call has run a round of two invocations and has issued the
\* next inference request.
C28_Witness ==
  \E c \in Calls :
    /\ frame[c].api = "chatStream"
    /\ requests[c] >= 2
    /\ Len(rounds[c][1].outs) >= 2
    /\ Len(SelectSeq(events[c], IsToolEnd)) >= 2
    /\ HistoryResults(Provider(c), conversationHistory[frame[c].agent],
                      openaiHistory[frame[c].agent], 2)
         = LastResults(events[c], 2)

-----------------------------------------------------------------------------
(* The cooldown in moltbook_post and moltbook_comment.                     *)

\* Tool call t starts in this step, as a call of the tool `name`.
Starts(t, name) ==
  /\ toolCall[t].pc = "idle"
  /\ toolCall'[t].pc # "idle"
  /\ toolCall'[t].name = name

\* The apiRequest call of tool call t, a call of `name`, returns in this step.
ApiReturns(t, name) ==
  /\ toolCall[t].pc = "transport"
  /\ toolCall'[t].pc = "returned"
  /\ toolCall[t].name = name

Positive(v) == v.kind = "number" /\ v.t > 0

\* The step calls recordPost() / recordComment().
CallsRecord(op) == heartbeatCall' # heartbeatCall /\ heartbeatCall'.op = op

Threshold(name) ==
  IF name = "moltbook_post" THEN 30 * 60 * 1000 ELSE 20 * 1000

\* Call u started after call t had returned.
StartedAfter(u, t) == ToolReturned(t) /\ toolCall[u].pc # "idle" /\ t \in toolCall[u].after

\* C30: when a call of moltbook_post (or moltbook_comment) starts after an
\* earlier call of the same tool has returned success, and less than the
\* cooldown after that return, it is rejected at once: it returns the
\* cooldown failure and sends no request.
C30_SequentialSecondRejected ==
  \A t \in Callers : \A u \in Callers \ {t} :
    /\ StartedAfter(u, t)
    /\ toolCall[t].name = toolCall[u].name
    /\ toolCall[t].result.success
    /\ toolCall[u].startedAt - toolCall[t].returnedAt < Threshold(toolCall[t].name)
    => /\ toolCall[u].pc = "returned"
       /\ toolCall[u].gated
       /\ ~toolCall[u].result.success
       /\ toolCall[u].result \in {PostCooldown, CommentCooldown}

\* Two overlapping calls of moltbook_post have both passed the check and
\* both sent their request, and neither has recorded yet.
C30_Witness ==
  /\ \A t \in Callers :
       /\ toolCall[t].pc = "transport"
       /\ toolCall[t].name = "moltbook_post"
       /\ ~toolCall[t].gated
  /\ fetches = 2
  /\ heartbeatCall = NoCall

-----------------------------------------------------------------------------
(* Work between two events of a streamed call, and abandoned calls.        *)

\* The call waits for the model's answer to a request it has issued.
Awaiting(c) == frame[c].pc = "model" /\ frame[c].k = 0

NewRequests(c) == requests'[c] - requests[c]
NewEvents(c) == Len(events'[c]) - Len(events[c])
NewRuns(c) == SubSeq(handlerRuns'[c], Len(handlerRuns[c]) + 1, Len(handlerRuns'[c]))

\* The handler runs of one executeTool call: the handler of the invocation
\* and, for a search that falls back, the one feed fetch.
OneExecution(runs) ==
  \/ Len(runs) <= 1
  \/ /\ Len(runs) = 2
     /\ runs[1].name = "moltbook_search"
     /\ runs[2].name = "moltbook_get_feed"

\* C31: every step of a streamed call runs up to its next yield or its next
\* request: it issues at most one inference request and makes at most one
\* executeTool call; a step that yields no event only issues a request, and
\* the step after it yields an event without further work, so between two
\* consecutive events there is at most one request and one execution.  Once
\* its consumer has stopped, the call issues no request, runs no handler and
\* yields nothing.
C31_BoundedWorkBetweenEvents ==
  [][\A c \in Calls :
       frame'[c].api = "chatStream" =>
         /\ NewRequests(c) \in {0, 1}
         /\ NewEvents(c) \in {0, 1}
         /\ OneExecution(NewRuns(c))
         /\ NewRequests(c) = 1 => NewRuns(c) = <<>> /\ NewEvents(c) = 0
         /\ NewEvents(c) = 0 /\ frame'[c] # frame[c] =>
              /\ ~Awaiting(c)
              /\ NewRuns(c) = <<>>
              /\ \/ NewRequests(c) = 1 /\ Awaiting(c)'
                 \/ NewRequests(c) = 0 /\ frame'[c].pc = "abandoned" /\ Suspended(c)
         /\ Awaiting(c) /\ frame'[c] # frame[c] =>
              NewEvents(c) = 1 /\ NewRequests(c) = 0 /\ NewRuns(c) = <<>>
         /\ frame[c].pc = "abandoned" =>
              /\ frame'[c] = frame[c]
              /\ requests'[c] = requests[c]
              /\ handlerRuns'[c] = handlerRuns[c]
              /\ events'[c] = events[c]
    ]_vars

\* The consumer of the first call stopped at a tool_start: the handler never
\* ran, although a later call on the agent ran to its end.
C31_Witness ==
  /\ frame[1].pc = "abandoned"
  /\ events[1] # <<>>
  /\ events[1][Len(events[1])].type = "tool_start"
  /\ handlerRuns[1] = <<>>
  /\ requests[1] = 1
  /\ frame[2].pc = "closed"
  /\ requests[2] >= 1

-----------------------------------------------------------------------------
(* What a successful fallback returns.                                     *)

\* The post holds the text q in its title, a space and its content, read
\* without regard to case.
Holds(p, q) ==
  includes(toLowerCase(p.title \o <<" ">> \o
                       (IF p.hasContent THEN p.content ELSE <<>>)),
           toLowerCase(q))

\* results are the first twenty, in feed order, of the posts of the feed
\* that hold q.
FirstTwentyHolding(results, q) ==
  LET M == {i \in 1..Len(feedPosts) : Holds(feedPosts[i], q)}
  IN  /\ Len(results) = IF Cardinality(M) < 20 THEN Cardinality(M) ELSE 20
      /\ \A k \in 1..Len(results) :
           /\ results[k].post_id \in M
           /\ Cardinality({j \in M : j <= results[k].post_id}) = k
           /\ results[k].title = feedPosts[results[k].post_id].title

FallbackSucceeded(t) ==
  FallbackRan(t) /\ toolCall[t].result.success = "true"

\* C32, as stated: a successful fallback returns exactly the first twenty, in
\* feed order, of the fetched posts whose title and body hold the original
\* query without regard to case, with a note that the results are degraded.
C32_FirstTwentyOfOriginalQuery ==
  \A t \in Callers :
    FallbackSucceeded(t) =>
      /\ FirstTwentyHolding(toolCall[t].results, extractSearchQuery(toolCall[t].input))
      /\ toolCall[t].note # Null

\* C32, amended: the same for the original query with its leading and
\* trailing white space removed.
C32_FirstTwentyOfTrimmedQuery ==
  \A t \in Callers :
    FallbackSucceeded(t) =>
      /\ FirstTwentyHolding(toolCall[t].results,
                            trimText(extractSearchQuery(toolCall[t].input)))
      /\ toolCall[t].note # Null
      /\ toolCall[t].query = extractSearchQuery(toolCall[t].input)

\* A fallback for the query " b " over a feed with more than twenty posts
\* that hold "b" returned twenty of them, the first of which does not hold
\* " b ".
C32_Witness ==
  \E t \in Callers :
    /\ FallbackSucceeded(t)
    /\ toolCall[t].input.query = <<" ", "b", " ">>
    /\ Len(toolCall[t].results) = 20
    /\ Len(feedPosts) > 20
    /\ ~Holds(feedPosts[toolCall[t].results[1].post_id], <<" ", "b", " ">>)

\* The fallback's feed fetch failed, threw, or gave no array of posts.
FeedFetchFailed(t) ==
  FallbackRan(t) /\ toolCall[t].outs[2] # "ok"

\* C33: when the fallback's feed fetch fails or yields no list of posts, the
\* invocation returns success = false with the error that the fallback feed
\* is unavailable, no results and no note, after exactly the search handler
\* and one feed fetch.
C33_FallbackExhausted ==
  \A t \in Callers :
    FeedFetchFailed(t) =>
      /\ toolCall[t].result.success = "false"
      /\ toolCall[t].result.error = "search failed (fallback feed unavailable)"
      /\ ~toolCall[t].result.fallback
      /\ toolCall[t].results = <<>>
      /\ toolCall[t].note = Null
      /\ Len(toolCall[t].runs) = 2
      /\ toolCall[t].runs[2].name = "moltbook_get_feed"

\* The feed answered with success and something that is no array of posts.
C33_Witness ==
  \E t \in Callers :
    /\ FeedFetchFailed(t)
    /\ toolCall[t].outs[2] = "ok_nolist"
    /\ toolCall[t].result.success = "false"
    /\ feedPosts # <<>>

-----------------------------------------------------------------------------
(* The history a call leaves behind.                                       *)

\* Every invocation record of the history is followed by a result record
\* that carries its id.
Answered(h) ==
  \A pos \in InvocationPositions(h) :
    \E rp \in ResultPositions(h) :
      /\ rp[1] > pos[1]
      /\ ResultId(h[rp[1]].results[rp[2]]) = h[pos[1]].calls[pos[2]].id

\* C34: whenever a streamed call has ended (done, error, or its consumer
\* stopped) and no other call of the agent is running, every invocation
\* record of the agent's history has its result.
C34_HistoryPairedAtEnd ==
  \A c \in Calls :
    /\ frame[c].api = "chatStream"
    /\ Ended(c)
    /\ \A d \in Calls : frame[d].pc = "idle" \/ Ended(d)
    => Answered(History(c))

\* Call c ended with an error on its first inference request.
FirstRequestFailed(c) ==
  /\ frame[c].pc = "closed"
  /\ requests[c] = 1
  /\ Len(rounds[c]) = 1
  /\ rounds[c][1].resp.fail # "none"

\* The messages of a history that carry the user's text.
UserMessages(h) ==
  {i \in DOMAIN h : h[i].role = "user" /\ h[i].content = "hello"}

\* C35: a call whose first inference request failed ends with an error and
\* leaves the history as it was before the call: when it is the agent's
\* first call the history is empty (but for the system prompt), and a
\* second call with the same message that also fails on its first request
\* leaves no user message in it.
C35_FailedCallLeavesHistory ==
  \A c \in Calls :
    /\ FirstRequestFailed(c)
    /\ \A d \in Calls : d < c => FirstRequestFailed(d)
    /\ \A d \in Calls : d > c => frame[d].pc = "idle"
    => /\ frame[c].api = "chatStream" =>
            LastOf(events[c]).type = "error"
       /\ UserMessages(History(c)) = {}

-----------------------------------------------------------------------------
(* The credential a search invocation uses.                                *)

\* C36: when the input of a search names an identity, every request of the
\* invocation (the search and the feed fetch of its fallback) is sent with
\* the api key of that identity.
C36_FallbackKeepsIdentity ==
  \A t \in Callers :
    /\ toolCall[t].pc # "idle"
    /\ toolCall[t].requested # Null
    => \A i \in 1..Len(toolCall[t].keys) :
         toolCall[t].keys[i] =
           getApiKey(identityConfig, trim(toolCall[t].requested))

-----------------------------------------------------------------------------
(* The cooldown and the identity a write is made under.                    *)

\* C37: on a tracker that starts with nothing recorded, a call of
\* moltbook_post (or moltbook_comment) is rejected by the local cooldown
\* check only after a successful call of the same tool under the same
\* identity: a success under another identity never causes the rejection.
C37_CooldownPerIdentity ==
  \A u \in Callers :
    toolCall[u].pc # "idle" /\ toolCall[u].gated
    => \E t \in toolCall[u].after :
         /\ toolCall[t].name = toolCall[u].name
         /\ toolCall[t].result.success
         /\ trim(toolCall[t].identity) = trim(toolCall[u].identity)

-----------------------------------------------------------------------------
(* Trackers of two processes on one cooldown document.                     *)

\* The time a persisted field holds; 0 when it holds null.
PersistedTime(v) == IF v.kind = "iso" THEN v.t ELSE 0

\* C38: the lastPost and the lastComment of the persisted cooldown document
\* never decrease and never revert to null, whichever tracker saves.
C38_PersistedTimesNeverLost ==
  [][/\ PersistedTime(heartbeatStateFile'.value.lastPost)
          >= PersistedTime(heartbeatStateFile.value.lastPost)
     /\ PersistedTime(heartbeatStateFile'.value.lastComment)
          >= PersistedTime(heartbeatStateFile.value.lastComment)]_vars

-----------------------------------------------------------------------------
(* What a heartbeat run reports.                                           *)

\* A feed request that returned a 2xx response.
Returned2xx(fetch) == fetch \in {"new", "none", "unparsable"}

\* C39: when runHeartbeat returns success = true, or advances lastCheck or
\* checkCount, at least one of its feed requests returned a 2xx response.
C39_SuccessNeedsFeedResponse ==
  [][/\ heartbeatCall' # heartbeatCall
     /\ heartbeatCall'.op = "runHeartbeat"
     /\ \/ heartbeatCall'.value
        \/ heartbeatState'.lastCheck # heartbeatState.lastCheck
        \/ heartbeatState'.checkCount # heartbeatState.checkCount
     => \E i \in 1..Len(heartbeatCall'.fetched) :
          Returned2xx(heartbeatCall'.fetched[i])]_vars

-----------------------------------------------------------------------------
(* The default of the credential store.                                    *)

\* C40: after any sequence of register, import, switch and remove on a
\* store that started empty, the default is null exactly when the store
\* holds no identity, and otherwise names an identity of the store.
C40_DefaultNamesStoredIdentity ==
  /\ identityConfig.default = Null <=> DOMAIN identityConfig.identities = {}
  /\ identityConfig.default # Null
       => identityConfig.default \in DOMAIN identityConfig.identities

====
